---- MODULE Spec2Model ----
(***************************************************************************)
(* Flowlytix subscription backend: the licence and subscription validation *)
(* engine.  The model covers the Subscription aggregate (domain entity),   *)
(* the SQLAlchemy repositories that load and store it, the service and     *)
(* route handlers for activate / validate / deactivate and the lifecycle   *)
(* operations, and the JWT token authority.                                *)
(*                                                                         *)
(* Time is counted in whole days.  An absent optional timestamp (Python    *)
(* None) is written NoTime.                                                *)
(***************************************************************************)
EXTENDS Integers, Sequences, FiniteSets, TLC

\* ------------------------------------------------------------------ bounds
\* Last day the clock of the lifecycle specification reaches.
MaxNow == 2
\* Largest max_devices a subscription of the model is created with.
MaxDevices == 2
\* Number of requests the server handles at a time.
NumProcs == 2
\* Last day the clock of the token specification reaches.
TokMaxNow == 40
\* Largest seed of the random source of the license key generator.
MaxSeed == 7
\* Most devices the in-memory aggregate of the domain specification holds.
MaxEntDevices == 3

\* ------------------------------------------------------- program constants
\* timedelta(days=30) of generate_subscription_token
TokenTtlDays == 30
\* settings.access_token_expire_minutes, and its length in whole days.
access_token_expire_minutes == 30
MinutesPerDay == 24 * 60
AccessTtlDays == access_token_expire_minutes \div MinutesPerDay
\* settings.algorithm
SettingsAlgorithm == "HS256"

NoTime == -1

Statuses == {"pending", "active", "suspended", "cancelled", "expired"}
Tiers == {"basic", "professional", "enterprise", "trial"}

\* License keys of stored subscriptions, and a key no subscription has.
Keys == {"K1"}
UnknownKey == "K0"
DeviceIds == {"d1", "d2"}
Jtis == {"j1", "j2"}
\* The device each concurrent activation request asks for: all distinct.
DevSeq == <<"d1", "d2", "d3", "d4">>
\* Dashboard users an access token is issued to.
Users == {[id |-> "u1", email |-> "u1@example.com", role |-> "admin"]}
\* Custom feature overrides a stored subscription may carry.
CustomFeatures == << << >>, [max_customers |-> 250], [analytics |-> TRUE, api_access |-> TRUE] >>

\* ------------------------------------------------------------- FeatureSet
FeatureNames == {"max_customers", "max_products", "analytics", "multi_location", "api_access", "priority_support"}

TIER_FEATURES(tier) ==
    CASE tier = "basic" ->
           [max_customers |-> 100, max_products |-> 500, analytics |-> FALSE,
            multi_location |-> FALSE, api_access |-> FALSE, priority_support |-> FALSE]
      [] tier = "professional" ->
           [max_customers |-> 1000, max_products |-> 5000, analytics |-> TRUE,
            multi_location |-> TRUE, api_access |-> TRUE, priority_support |-> FALSE]
      [] tier = "enterprise" ->
           [max_customers |-> -1, max_products |-> -1, analytics |-> TRUE,
            multi_location |-> TRUE, api_access |-> TRUE, priority_support |-> TRUE]
      [] tier = "trial" ->
           [max_customers |-> 10, max_products |-> 50, analytics |-> FALSE,
            multi_location |-> FALSE, api_access |-> FALSE, priority_support |-> FALSE]
      [] OTHER -> << >>

\* dict.update: the right operand wins on every key it has.
DictUpdate(base, over) ==
    [n \in (DOMAIN base) \cup (DOMAIN over) |-> IF n \in DOMAIN over THEN over[n] ELSE base[n]]

\* Mutant of FeatureSet: the tier defaults win over the custom features.
FeatureSet_DefaultsWin(tier, custom_features) ==
    DictUpdate(custom_features, TIER_FEATURES(tier))

\* FeatureSet.__init__: tier defaults, overridden by the custom features.
FeatureSet(tier, custom_features) ==
    IF DOMAIN custom_features # {}
    THEN DictUpdate(TIER_FEATURES(tier), custom_features)
    ELSE TIER_FEATURES(tier)

\* dict.get(name, default)
DictGet(d, name, default) == IF name \in DOMAIN d THEN d[name] ELSE default

\* FeatureSet.has_feature
has_feature(features, feature_name) == DictGet(features, feature_name, FALSE)

\* FeatureSet.get_limit
get_limit(features, limit_name) == DictGet(features, limit_name, 0)

\* ------------------------------------------------- Device (domain entity)
\* Mutant of NewDevice: a new device starts with the active flag false.
NewDevice_Inactive(subscription_id, device_id, t) ==
    [subscription_id |-> subscription_id, device_id |-> device_id,
     is_active |-> FALSE, last_seen_at |-> t]

\* Device.__init__ as activate_license calls it: is_active defaults to True.
NewDevice(subscription_id, device_id, t) ==
    [subscription_id |-> subscription_id, device_id |-> device_id,
     is_active |-> TRUE, last_seen_at |-> t]

DeviceActivate(dev) == [dev EXCEPT !.is_active = TRUE]
DeviceDeactivate(dev) == [dev EXCEPT !.is_active = FALSE]
DeviceUpdateLastSeen(dev, t) == [dev EXCEPT !.last_seen_at = t]

\* ------------------------------------------- Subscription (domain entity)
\* An entity s is a record: id, customer_id, license_key, status, tier, features (the
\* resolved feature_set.features), max_devices, starts_at, expires_at,
\* grace_period_days, devices (a sequence of Device records).

\* Mutant of is_active: the grace period ends one day early (>= for >).
is_active_GraceEndsEarly(s, t) ==
    IF s.status # "active" THEN FALSE
    ELSE IF t < s.starts_at THEN FALSE
    ELSE IF s.expires_at # NoTime /\ t >= s.expires_at + s.grace_period_days THEN FALSE
    ELSE TRUE

\* Subscription.is_active
is_active(s, t) ==
    IF s.status # "active" THEN FALSE
    ELSE IF t < s.starts_at THEN FALSE
    ELSE IF s.expires_at # NoTime /\ t > s.expires_at + s.grace_period_days THEN FALSE
    ELSE TRUE

\* Subscription.is_expired
is_expired(s, t) ==
    IF s.expires_at = NoTime THEN FALSE
    ELSE t > s.expires_at + s.grace_period_days

\* Mutant of is_in_grace_period: the expiry instant itself counts as grace.
is_in_grace_period_FromExpiryInstant(s, t) ==
    IF s.expires_at = NoTime THEN FALSE
    ELSE s.expires_at <= t /\ t <= s.expires_at + s.grace_period_days

\* Subscription.is_in_grace_period
is_in_grace_period(s, t) ==
    IF s.expires_at = NoTime THEN FALSE
    ELSE s.expires_at < t /\ t <= s.expires_at + s.grace_period_days

\* Subscription.days_until_expiry (NoTime stands for None)
days_until_expiry(s, t) ==
    IF s.expires_at = NoTime THEN NoTime
    ELSE IF s.expires_at - t > 0 THEN s.expires_at - t ELSE 0

ActiveIdx(s) == {i \in 1..Len(s.devices) : s.devices[i].is_active}

\* Subscription.can_add_device
can_add_device(s) == Cardinality(ActiveIdx(s)) < s.max_devices

\* Index of the first device with this client id, 0 when there is none.
DeviceIndex(s, device_id) ==
    LET hits == {i \in 1..Len(s.devices) : s.devices[i].device_id = device_id}
    IN IF hits = {} THEN 0 ELSE CHOOSE i \in hits : \A j \in hits : i <= j

\* Subscription.get_device: found tells whether a device was returned.
get_device(s, device_id) ==
    LET i == DeviceIndex(s, device_id)
    IN [found |-> i # 0, idx |-> i]

\* Subscription.add_device: raises DeviceLimitExceeded or appends.
add_device(s, dev) ==
    IF ~can_add_device(s)
    THEN [raised |-> "DeviceLimitExceeded", current_devices |-> Cardinality(ActiveIdx(s)),
          max_devices |-> s.max_devices, sub |-> s]
    ELSE [raised |-> "none", current_devices |-> 0, max_devices |-> 0,
          sub |-> [s EXCEPT !.devices = Append(@, [dev EXCEPT !.subscription_id = s.id])]]

\* Subscription.remove_device: deactivates the first device with the id.
remove_device(s, device_id) ==
    LET i == DeviceIndex(s, device_id)
    IN IF i = 0 THEN [removed |-> FALSE, sub |-> s]
       ELSE [removed |-> TRUE, sub |-> [s EXCEPT !.devices[i] = DeviceDeactivate(@)]]

\* Subscription.activate
sub_activate(s) == [s EXCEPT !.status = "active"]

\* Mutant of sub_suspend: suspending also deactivates the devices.
sub_suspend_DeactivatesDevices(s) ==
    [s EXCEPT !.status = "suspended",
              !.devices = [i \in 1..Len(s.devices) |-> DeviceDeactivate(s.devices[i])]]

\* Subscription.suspend
sub_suspend(s) == [s EXCEPT !.status = "suspended"]

\* Subscription.cancel
sub_cancel(s) ==
    [s EXCEPT !.status = "cancelled",
              !.devices = [i \in 1..Len(s.devices) |-> DeviceDeactivate(s.devices[i])]]

\* Subscription.resume
sub_resume(s) ==
    [s EXCEPT !.status = "active",
              !.devices = [i \in 1..Len(s.devices) |->
                             IF ~s.devices[i].is_active THEN DeviceActivate(s.devices[i])
                             ELSE s.devices[i]]]

\* Mutant of extend_expiry: the new expiry always counts from now.
extend_expiry_FromNow(s, days, t) == [s EXCEPT !.expires_at = t + days]

\* Subscription.extend_expiry
extend_expiry(s, days, t) ==
    IF s.expires_at # NoTime THEN [s EXCEPT !.expires_at = @ + days]
    ELSE [s EXCEPT !.expires_at = t + days]

\* Subscription.update_tier
update_tier(s, new_tier, custom_features) ==
    [s EXCEPT !.tier = new_tier, !.features = FeatureSet(new_tier, custom_features)]

\* Subscription.validate_for_activation
validate_for_activation(s, device_id, t) ==
    LET base == [raised |-> "none", action |-> "none", has_device |-> FALSE, idx |-> 0,
                 current_devices |-> 0, max_devices |-> 0, sub |-> s]
        existing == get_device(s, device_id)
    IN IF is_expired(s, t) THEN [base EXCEPT !.raised = "SubscriptionExpired"]
       ELSE IF existing.found
       THEN IF s.devices[existing.idx].is_active
            THEN [base EXCEPT !.action = "already_active", !.has_device = TRUE, !.idx = existing.idx]
            ELSE [base EXCEPT !.action = "reactivated", !.has_device = TRUE, !.idx = existing.idx,
                              !.sub = [s EXCEPT !.devices[existing.idx] = DeviceActivate(@)]]
       ELSE IF ~can_add_device(s)
       THEN [base EXCEPT !.raised = "DeviceLimitExceeded",
                         !.current_devices = Cardinality(ActiveIdx(s)),
                         !.max_devices = s.max_devices]
       ELSE [base EXCEPT !.action = "can_activate"]

\* Subscription.to_token_payload
to_token_payload(s, device_id) ==
    [id |-> s.id, customer_id |-> s.customer_id, license_key |-> s.license_key,
     tier |-> s.tier, features |-> s.features,
     device_id |-> device_id, expires_at |-> s.expires_at,
     grace_period_days |-> s.grace_period_days, status |-> s.status]

\* ------------------------------------------------------------ JWTManager
\* rsa.generate_private_key: the n-th private key generated.
generate_private_key(n) == [kind |-> "rsa_private", n |-> n]

\* private_key.public_key(): the public half of a private key.
public_key(private_key) == [kind |-> "rsa_public", n |-> private_key.n]

\* A key file that does not exist.
NoKeyFile == [kind |-> "none", n |-> 0]

\* JWTManager._generate_key_pair: the two key files it writes.
generate_key_pair(n) ==
    LET private_key == generate_private_key(n)
    IN [private |-> private_key, public |-> public_key(private_key)]

\* JWTManager._initialize_keys: when either key file is missing a pair is
\* generated and written, then _load_keys loads both files.
initialize_keys(files, n) ==
    IF files.private = NoKeyFile \/ files.public = NoKeyFile
    THEN generate_key_pair(n)
    ELSE files

\* The keys of the security manager: JWTManager() on a first start, when no
\* key file exists.
JwtKeys == initialize_keys([private |-> NoKeyFile, public |-> NoKeyFile], 1)

\* settings.secret_key
SecretKey == [kind |-> "secret", n |-> 0]

\* A segment of the compact serialisation: the JSON object of a dictionary,
\* base64url-encoded, as the set of its members.
EncodeSegment(dict) == {<<name, dict[name]>> : name \in DOMAIN dict}

\* The dictionary a segment decodes to.
DecodeSegment(segment) ==
    [name \in {m[1] : m \in segment} |-> (CHOOSE m \in segment : m[1] = name)[2]]

\* A signature records the algorithm and key that made it and the signing
\* input (the header and payload segments) it covers.
Sign(alg, key, signing_input) == [alg |-> alg, key |-> key, signed |-> signing_input]

\* jwt.encode(payload, key, algorithm): the compact serialisation, the
\* header segment, the payload segment and the signature over the two.
jwt_encode(payload, key, alg) ==
    LET signing_input == <<EncodeSegment([alg |-> alg, typ |-> "JWT"]), EncodeSegment(payload)>>
    IN <<signing_input[1], signing_input[2], Sign(alg, key, signing_input)>>

\* jwt.get_unverified_header and jwt.get_unverified_claims
get_unverified_header(token) == DecodeSegment(token[1])
get_unverified_claims(token) == DecodeSegment(token[2])

\* Whether a signature made with sign_key verifies under verify_key: an RSA
\* signature under the public half of the private key that made it, an HMAC
\* under the same secret.
KeyVerifies(alg, sign_key, verify_key) ==
    CASE alg = "RS256" -> sign_key.kind = "rsa_private" /\ verify_key = public_key(sign_key)
      [] alg = "HS256" -> sign_key = verify_key
      [] OTHER -> FALSE

\* jws.verify: the header's algorithm must be an allowed one and the
\* signature must cover the header and payload segments under the
\* verifying key.
jws_verify(token, verify_key, algorithms) ==
    /\ get_unverified_header(token).alg \in algorithms
    /\ token[3].alg = get_unverified_header(token).alg
    /\ token[3].signed = <<token[1], token[2]>>
    /\ KeyVerifies(token[3].alg, token[3].key, verify_key)

\* jwt.decode: signature first, then the claims of the payload segment:
\* exp, aud and iss in that order.  ExpiredSignatureError is the only error
\* the callers tell apart.
jwt_decode(token, verify_key, algorithms, audience, issuer, t) ==
    LET claims == get_unverified_claims(token)
    IN IF ~jws_verify(token, verify_key, algorithms)
       THEN [outcome |-> "JWTError", claims |-> << >>]
       ELSE IF claims.exp < t THEN [outcome |-> "ExpiredSignatureError", claims |-> << >>]
       ELSE IF claims.aud # audience THEN [outcome |-> "JWTClaimsError", claims |-> << >>]
       ELSE IF claims.iss # issuer THEN [outcome |-> "JWTClaimsError", claims |-> << >>]
       ELSE [outcome |-> "ok", claims |-> claims]

\* Mutant of generate_subscription_token: the features claim carries the
\* tier defaults instead of the subscription's resolved feature map.
generate_subscription_token_TierDefaults(subscription_data, t, jti) ==
    jwt_encode([subscription_id |-> subscription_data.id,
                customer_id |-> subscription_data.customer_id,
                tier |-> subscription_data.tier,
                features |-> TIER_FEATURES(subscription_data.tier),
                device_id |-> subscription_data.device_id,
                expires_at |-> subscription_data.expires_at,
                grace_period_days |-> subscription_data.grace_period_days,
                iss |-> "flowlytix-licensing",
                aud |-> "flowlytix-app",
                iat |-> t,
                exp |-> t + TokenTtlDays,
                jti |-> jti],
               JwtKeys.private, "RS256")

\* Mutant of generate_subscription_token: the claim expiry is cut to the
\* subscription's expires_at when that comes first.
generate_subscription_token_ExpFromSubscription(subscription_data, t, jti) ==
    jwt_encode([subscription_id |-> subscription_data.id,
                customer_id |-> subscription_data.customer_id,
                tier |-> subscription_data.tier,
                features |-> subscription_data.features,
                device_id |-> subscription_data.device_id,
                expires_at |-> subscription_data.expires_at,
                grace_period_days |-> subscription_data.grace_period_days,
                iss |-> "flowlytix-licensing",
                aud |-> "flowlytix-app",
                iat |-> t,
                exp |-> IF subscription_data.expires_at # NoTime
                           /\ subscription_data.expires_at < t + TokenTtlDays
                        THEN subscription_data.expires_at
                        ELSE t + TokenTtlDays,
                jti |-> jti],
               JwtKeys.private, "RS256")

\* JWTManager.generate_subscription_token
generate_subscription_token(subscription_data, t, jti) ==
    jwt_encode([subscription_id |-> subscription_data.id,
                customer_id |-> subscription_data.customer_id,
                tier |-> subscription_data.tier,
                features |-> subscription_data.features,
                device_id |-> subscription_data.device_id,
                expires_at |-> subscription_data.expires_at,
                grace_period_days |-> subscription_data.grace_period_days,
                iss |-> "flowlytix-licensing",
                aud |-> "flowlytix-app",
                iat |-> t,
                exp |-> t + TokenTtlDays,
                jti |-> jti],
               JwtKeys.private, "RS256")

\* The result dictionary of the two verify methods.  The handlers name
\* jwt.InvalidTokenError, which the jose module does not define, so every
\* failure other than expiry leaves the method as an AttributeError.
VerifyResult(decoded) ==
    CASE decoded.outcome = "ok" ->
           [valid |-> TRUE, error |-> "none", raised |-> "none", payload |-> decoded.claims]
      [] decoded.outcome = "ExpiredSignatureError" ->
           [valid |-> FALSE, error |-> "token_expired", raised |-> "none", payload |-> << >>]
      [] OTHER -> [valid |-> FALSE, error |-> "none", raised |-> "AttributeError", payload |-> << >>]

\* Mutant of verify_subscription_token: HS256 is accepted next to RS256.
verify_subscription_token_AlsoHS256(token, t) ==
    VerifyResult(jwt_decode(token, JwtKeys.public, {"RS256", "HS256"},
                            "flowlytix-app", "flowlytix-licensing", t))

\* JWTManager.verify_subscription_token
verify_subscription_token(token, t) ==
    VerifyResult(jwt_decode(token, JwtKeys.public, {"RS256"},
                            "flowlytix-app", "flowlytix-licensing", t))

\* JWTManager.generate_access_token
generate_access_token(user_data, t) ==
    jwt_encode([sub |-> user_data.id, email |-> user_data.email, role |-> user_data.role,
                iss |-> "flowlytix-dashboard", aud |-> "flowlytix-dashboard",
                iat |-> t, exp |-> t + AccessTtlDays, type |-> "access"],
               SecretKey, SettingsAlgorithm)

\* JWTManager.verify_access_token
verify_access_token(token, t) ==
    VerifyResult(jwt_decode(token, SecretKey, {SettingsAlgorithm},
                            "flowlytix-dashboard", "flowlytix-dashboard", t))

\* --------------------------------------------------- LicenseKeyGenerator
\* A string is a sequence of one-character strings.
\* settings.license_key_length
license_key_length == 32

\* Characters of the URL-safe base64 alphabet that secrets.token_urlsafe
\* draws from (a sample: lower case, upper case, digits, "-" and "_").
UrlSafeChars == <<"a", "Q", "7", "-", "_", "k", "3", "Z">>
AlnumChars == {"a", "k", "A", "B", "F", "K", "L", "Q", "X", "Y", "Z", "0", "1", "3", "7"}
UpperAlnumChars == AlnumChars \ {"a", "k"}

\* secrets.token_urlsafe(nbytes)[:nbytes]: the text has at least nbytes
\* characters, so the slice has exactly nbytes; seed stands for the random
\* source.
token_urlsafe(nbytes, seed) ==
    [i \in 1..nbytes |-> UrlSafeChars[((seed + i) % Len(UrlSafeChars)) + 1]]

\* str.upper
StrUpper(str) ==
    [i \in 1..Len(str) |-> CASE str[i] = "a" -> "A" [] str[i] = "k" -> "K" [] OTHER -> str[i]]

\* str.replace for a one-character pattern
StrReplace(str, old, new) == [i \in 1..Len(str) |-> IF str[i] = old THEN new ELSE str[i]]

\* One part of generate_license_key's loop.
KeyPart(part_length, seed) ==
    StrReplace(StrReplace(StrUpper(token_urlsafe(part_length, seed)), "-", "0"), "_", "1")

\* LicenseKeyGenerator.generate_license_key; token_urlsafe raises
\* ValueError for a negative size.
generate_license_key(prefix, length, seed) ==
    LET key_length == length - Len(prefix) - 3
        part_length == key_length \div 4
    IN IF part_length < 0 THEN [raised |-> "ValueError", key |-> << >>]
       ELSE [raised |-> "none",
             key |-> prefix \o <<"-">> \o KeyPart(part_length, seed)
                            \o <<"-">> \o KeyPart(part_length, seed + 1)
                            \o <<"-">> \o KeyPart(part_length, seed + 2)
                            \o <<"-">> \o KeyPart(part_length, seed + 3)]

\* str.split(sep)
RECURSIVE StrSplit(_, _)
StrSplit(str, sep) ==
    IF \A i \in 1..Len(str) : str[i] # sep THEN <<str>>
    ELSE LET i == CHOOSE i \in 1..Len(str) : str[i] = sep /\ \A j \in 1..(i - 1) : str[j] # sep
         IN <<SubSeq(str, 1, i - 1)>> \o StrSplit(SubSeq(str, i + 1, Len(str)), sep)

\* str.isalnum: false for the empty string
isalnum(str) == Len(str) > 0 /\ \A i \in 1..Len(str) : str[i] \in AlnumChars

\* LicenseKeyGenerator.validate_license_key_format
validate_license_key_format(license_key) ==
    IF Len(license_key) = 0 THEN FALSE
    ELSE LET parts == StrSplit(license_key, "-")
         IN IF Len(parts) # 5 THEN FALSE
            ELSE IF parts[1] # <<"F", "L">> THEN FALSE
            ELSE \A i \in 2..Len(parts) : isalnum(parts[i]) /\ Len(parts[i]) >= 4

\* ----------------------------------------------------------- repositories
\* The database holds one subscription row per license key (subs) and a
\* set of device rows (rows).  The primary key of subscription K is SubId(K).
SubId(key) == key

\* SubscriptionRepository._model_to_entity: the entity is built with an
\* empty device list whatever device rows the subscription has.
SubModelToEntity(model) ==
    [id |-> model.id, customer_id |-> model.customer_id,
     license_key |-> model.license_key, status |-> model.status,
     tier |-> model.tier, features |-> FeatureSet(model.tier, model.features),
     max_devices |-> model.max_devices, starts_at |-> model.starts_at,
     expires_at |-> model.expires_at, grace_period_days |-> model.grace_period_days,
     devices |-> << >>]

NoEntity == [found |-> FALSE, sub |-> << >>]

\* SubscriptionRepository.get_by_license_key
get_by_license_key(dbs, license_key) ==
    IF \E k \in DOMAIN dbs : dbs[k].license_key = license_key
    THEN [found |-> TRUE,
          sub |-> SubModelToEntity(dbs[CHOOSE k \in DOMAIN dbs : dbs[k].license_key = license_key])]
    ELSE NoEntity

\* The device rows of a subscription as a device list, in the order of DevSeq.
DevicesOf(dbr, subscription_id) ==
    LET ids == SelectSeq(DevSeq, LAMBDA d : \E r \in dbr : r.subscription_id = subscription_id
                                                            /\ r.device_id = d)
    IN [i \in 1..Len(ids) |->
           CHOOSE r \in dbr : r.subscription_id = subscription_id /\ r.device_id = ids[i]]

\* ISubscriptionRepository.get_by_license_key as the service is written
\* against it: the aggregate carries the device rows the query selects with
\* the subscription (selectinload of SubscriptionModel.devices).
get_by_license_key_with_devices(dbs, dbr, license_key) ==
    LET got == get_by_license_key(dbs, license_key)
    IN IF ~got.found THEN got
       ELSE [got EXCEPT !.sub.devices = DevicesOf(dbr, got.sub.id)]

\* SubscriptionRepository.get_by_id
get_by_id(dbs, subscription_id) ==
    IF \E k \in DOMAIN dbs : dbs[k].id = subscription_id
    THEN [found |-> TRUE,
          sub |-> SubModelToEntity(dbs[CHOOSE k \in DOMAIN dbs : dbs[k].id = subscription_id])]
    ELSE NoEntity

\* SubscriptionRepository.create: INSERT of the row of the entity, read
\* back; DatabaseException when a row already has its id or license key.
SubRepoCreate(dbs, s) ==
    IF \E k \in DOMAIN dbs : dbs[k].id = s.id \/ dbs[k].license_key = s.license_key
    THEN [raised |-> "DatabaseException", subs |-> dbs]
    ELSE [raised |-> "none",
          subs |-> [k \in DOMAIN dbs \cup {s.license_key} |->
                      IF k \in DOMAIN dbs THEN dbs[k]
                      ELSE [id |-> s.id, customer_id |-> s.customer_id,
                            license_key |-> s.license_key, status |-> s.status,
                            tier |-> s.tier, features |-> s.features,
                            max_devices |-> s.max_devices, starts_at |-> s.starts_at,
                            expires_at |-> s.expires_at,
                            grace_period_days |-> s.grace_period_days]]]

\* SubscriptionRepository.update: UPDATE ... WHERE id = subscription.id of
\* the scalar columns; the features column receives feature_set.features.
\* The row is then read back, and DatabaseException is raised when no row
\* has the id.
SubRepoUpdate(dbs, s) ==
    IF ~\E k \in DOMAIN dbs : dbs[k].id = s.id
    THEN [raised |-> "DatabaseException", subs |-> dbs]
    ELSE [raised |-> "none",
          subs |-> [k \in DOMAIN dbs |->
                      IF dbs[k].id = s.id
                      THEN [dbs[k] EXCEPT !.tier = s.tier, !.status = s.status,
                                          !.features = s.features,
                                          !.max_devices = s.max_devices,
                                          !.starts_at = s.starts_at,
                                          !.expires_at = s.expires_at,
                                          !.grace_period_days = s.grace_period_days]
                      ELSE dbs[k]]]

\* Mutant of SameDevice: the client device id alone is unique.
SameDevice_Global(a, b) == a.device_id = b.device_id

\* The unique index idx_devices_subscription_device_unique.
SameDevice(a, b) == a.subscription_id = b.subscription_id /\ a.device_id = b.device_id

\* DeviceRepository.create: INSERT and flush; a second row for the same
\* (subscription_id, device_id) violates the unique index.
DeviceRepoCreate(dbr, dev) ==
    IF \E r \in dbr : SameDevice(r, dev)
    THEN [raised |-> "DatabaseException", rows |-> dbr]
    ELSE [raised |-> "none", rows |-> dbr \cup {dev}]

\* DeviceRepository.update: UPDATE ... WHERE id = device.id, then re-read.
DeviceRepoUpdate(dbr, dev) ==
    IF \E r \in dbr : SameDevice(r, dev)
    THEN [raised |-> "none", rows |-> {r \in dbr : ~SameDevice(r, dev)} \cup {dev}]
    ELSE [raised |-> "DatabaseException", rows |-> dbr]

\* DeviceRepository.get_by_subscription_id
get_by_subscription_id(dbr, subscription_id) == {r \in dbr : r.subscription_id = subscription_id}

\* Ids of the customer rows, and an id no customer row has.
Customers == {"c1"}
UnknownCustomer == "c0"

\* duration_days of the creation requests.
DurationDays == {1}

\* Subscription.__init__: grace_period_days when the caller passes none.
DefaultGracePeriodDays == 7

\* ------------------------------------------------------ SubscriptionService
SvcBase(dbs, dbr) ==
    [raised |-> "none", subs |-> dbs, rows |-> dbr, action |-> "none",
     current_devices |-> 0, max_devices |-> 0, has_token |-> FALSE, token |-> << >>,
     valid |-> FALSE, reason |-> "none", removed |-> FALSE, update_last_seen |-> FALSE]

\* The service result after subscription_repo.update answered u.
Saved(base, u) ==
    IF u.raised # "none" THEN [base EXCEPT !.raised = u.raised]
    ELSE [base EXCEPT !.subs = u.subs]

\* activate_license, can_activate branch up to add_device: create the
\* device row, then add the device to the aggregate.
ActivateNewDevice(dbr, s, device_id, t) ==
    LET device == NewDevice(s.id, device_id, t)
        created == DeviceRepoCreate(dbr, device)
        added == add_device(s, device)
    IN IF created.raised # "none"
       THEN [raised |-> created.raised, rows |-> dbr, sub |-> s,
             current_devices |-> 0, max_devices |-> 0]
       ELSE [raised |-> added.raised, rows |-> created.rows, sub |-> added.sub,
             current_devices |-> added.current_devices, max_devices |-> added.max_devices]

\* activate_license, reactivated branch: touch last-seen, update the row.
ActivateReactivated(dbr, s, idx, t) ==
    LET device == DeviceUpdateLastSeen(s.devices[idx], t)
        updated == DeviceRepoUpdate(dbr, device)
    IN [raised |-> updated.raised, rows |-> updated.rows,
        sub |-> [s EXCEPT !.devices[idx] = device], current_devices |-> 0, max_devices |-> 0]

\* activate_license: the device write of the branch the validation chose.
ActivateWrite(dbr, v, device_id, t) ==
    CASE v.action = "can_activate" -> ActivateNewDevice(dbr, v.sub, device_id, t)
      [] v.action = "reactivated" -> ActivateReactivated(dbr, v.sub, v.idx, t)
      [] OTHER -> [raised |-> "none", rows |-> dbr, sub |-> v.sub,
                   current_devices |-> 0, max_devices |-> 0]

\* activate_license: subscription_repo.update runs in the can_activate branch only.
ActivateUpdate(dbs, action, s) ==
    IF action = "can_activate" THEN SubRepoUpdate(dbs, s)
    ELSE [raised |-> "none", subs |-> dbs]

\* SubscriptionService.activate_license
activate_license(dbs, dbr, license_key, device_id, t, jti) ==
    LET got == get_by_license_key(dbs, license_key)
        base == SvcBase(dbs, dbr)
    IN IF ~got.found THEN [base EXCEPT !.raised = "LicenseKeyInvalid"]
       ELSE LET v == validate_for_activation(got.sub, device_id, t)
            IN IF v.raised # "none"
               THEN [base EXCEPT !.raised = v.raised, !.current_devices = v.current_devices,
                                 !.max_devices = v.max_devices]
               ELSE LET w == ActivateWrite(dbr, v, device_id, t)
                    IN IF w.raised # "none"
                       THEN [base EXCEPT !.raised = w.raised,
                                         !.current_devices = w.current_devices,
                                         !.max_devices = w.max_devices]
                       ELSE LET u == ActivateUpdate(dbs, v.action, w.sub)
                            IN IF u.raised # "none"
                               THEN [base EXCEPT !.raised = u.raised, !.rows = w.rows]
                               ELSE [base EXCEPT !.subs = u.subs,
                                                 !.rows = w.rows, !.action = v.action,
                                                 !.has_token = TRUE,
                                                 !.token = generate_subscription_token(
                                                              to_token_payload(w.sub, device_id),
                                                              t, jti)]

\* SubscriptionService.activate_license when a step after the device write
\* fails: subscription_repo.update raises DatabaseException (update_fails)
\* or generate_subscription_token raises TokenException (token_fails).  The
\* result carries what the session had written when the exception left the
\* method.
activate_license_failing(dbs, dbr, license_key, device_id, t, fault) ==
    LET got == get_by_license_key(dbs, license_key)
        base == SvcBase(dbs, dbr)
    IN IF ~got.found THEN [base EXCEPT !.raised = "LicenseKeyInvalid"]
       ELSE LET v == validate_for_activation(got.sub, device_id, t)
            IN IF v.raised # "none"
               THEN [base EXCEPT !.raised = v.raised, !.current_devices = v.current_devices,
                                 !.max_devices = v.max_devices]
               ELSE LET w == ActivateWrite(dbr, v, device_id, t)
                    IN IF w.raised # "none"
                       THEN [base EXCEPT !.raised = w.raised,
                                         !.current_devices = w.current_devices,
                                         !.max_devices = w.max_devices]
                       ELSE IF fault = "update_fails" /\ v.action = "can_activate"
                       THEN [base EXCEPT !.raised = "DatabaseException", !.rows = w.rows]
                       ELSE LET u == ActivateUpdate(dbs, v.action, w.sub)
                            IN IF u.raised # "none"
                               THEN [base EXCEPT !.raised = u.raised, !.rows = w.rows]
                               ELSE [base EXCEPT !.raised = "TokenException", !.rows = w.rows,
                                                 !.subs = u.subs]

\* Mutant of validate_outcome: the last-seen timestamp of a device found in
\* the aggregate is written whatever the result.
validate_outcome_TouchesOnInvalid(s, device_id, update_last_seen, t) ==
    LET dev == get_device(s, device_id)
        negative == [valid |-> FALSE, reason |-> "none",
                     touch |-> dev.found /\ update_last_seen, idx |-> dev.idx]
    IN IF ~dev.found \/ ~s.devices[dev.idx].is_active
       THEN [negative EXCEPT !.reason = "device_not_activated"]
       ELSE IF ~is_active(s, t)
       THEN [negative EXCEPT !.reason = IF is_expired(s, t) THEN "expired" ELSE "inactive"]
       ELSE [negative EXCEPT !.valid = TRUE]

\* validate_license between get_by_license_key and device_repo.update: the
\* device lookup, the checks and the result; touch tells whether the
\* last-seen timestamp of device idx is written before the method returns.
validate_outcome(s, device_id, update_last_seen, t) ==
    LET dev == get_device(s, device_id)
        negative == [valid |-> FALSE, reason |-> "none", touch |-> FALSE, idx |-> dev.idx]
    IN IF ~dev.found \/ ~s.devices[dev.idx].is_active
       THEN [negative EXCEPT !.reason = "device_not_activated"]
       ELSE IF ~is_active(s, t)
       THEN [negative EXCEPT !.reason = IF is_expired(s, t) THEN "expired" ELSE "inactive"]
       ELSE [negative EXCEPT !.valid = TRUE, !.touch = update_last_seen]

\* SubscriptionService.validate_license, run without interruption.
validate_license(dbs, dbr, license_key, device_id, update_last_seen, t) ==
    LET got == get_by_license_key(dbs, license_key)
        base == [SvcBase(dbs, dbr) EXCEPT !.update_last_seen = update_last_seen]
    IN IF ~got.found THEN [base EXCEPT !.raised = "LicenseKeyInvalid"]
       ELSE LET s == got.sub
                o == validate_outcome(s, device_id, update_last_seen, t)
            IN IF o.touch
               THEN LET updated == DeviceRepoUpdate(dbr, DeviceUpdateLastSeen(s.devices[o.idx], t))
                    IN IF updated.raised # "none"
                       THEN [base EXCEPT !.raised = updated.raised]
                       ELSE [base EXCEPT !.valid = o.valid, !.reason = o.reason,
                                         !.rows = updated.rows]
               ELSE [base EXCEPT !.valid = o.valid, !.reason = o.reason]

\* SubscriptionService.deactivate_device
deactivate_device(dbs, dbr, license_key, device_id) ==
    LET got == get_by_license_key(dbs, license_key)
        base == SvcBase(dbs, dbr)
    IN IF ~got.found THEN [base EXCEPT !.raised = "LicenseKeyInvalid"]
       ELSE LET r == remove_device(got.sub, device_id)
            IN IF r.removed
               THEN Saved([base EXCEPT !.removed = TRUE], SubRepoUpdate(dbs, r.sub))
               ELSE base

\* cancel_subscription's loop: device_repo.update for each device of the aggregate.
RECURSIVE UpdateDevices(_, _)
UpdateDevices(dbr, devs) ==
    IF devs = << >> THEN [raised |-> "none", rows |-> dbr]
    ELSE LET u == DeviceRepoUpdate(dbr, Head(devs))
         IN IF u.raised # "none" THEN u ELSE UpdateDevices(u.rows, Tail(devs))

\* SubscriptionService.suspend_subscription
suspend_subscription(dbs, dbr, subscription_id) ==
    LET got == get_by_id(dbs, subscription_id)
        base == SvcBase(dbs, dbr)
    IN IF ~got.found THEN [base EXCEPT !.raised = "SubscriptionNotFound"]
       ELSE Saved(base, SubRepoUpdate(dbs, sub_suspend(got.sub)))

\* SubscriptionService.cancel_subscription
cancel_subscription(dbs, dbr, subscription_id) ==
    LET got == get_by_id(dbs, subscription_id)
        base == SvcBase(dbs, dbr)
    IN IF ~got.found THEN [base EXCEPT !.raised = "SubscriptionNotFound"]
       ELSE LET s == sub_cancel(got.sub)
                u == UpdateDevices(dbr, s.devices)
            IN IF u.raised # "none" THEN [base EXCEPT !.raised = u.raised]
               ELSE Saved([base EXCEPT !.rows = u.rows], SubRepoUpdate(dbs, s))

\* SubscriptionService.resume_subscription
resume_subscription(dbs, dbr, subscription_id) ==
    LET got == get_by_id(dbs, subscription_id)
        base == SvcBase(dbs, dbr)
    IN IF ~got.found THEN [base EXCEPT !.raised = "SubscriptionNotFound"]
       ELSE Saved(base, SubRepoUpdate(dbs, sub_resume(got.sub)))

\* SubscriptionService.extend_subscription
extend_subscription(dbs, dbr, subscription_id, days, t) ==
    LET got == get_by_id(dbs, subscription_id)
        base == SvcBase(dbs, dbr)
    IN IF ~got.found THEN [base EXCEPT !.raised = "SubscriptionNotFound"]
       ELSE Saved(base, SubRepoUpdate(dbs, extend_expiry(got.sub, days, t)))

\* SubscriptionService.update_subscription_tier
update_subscription_tier(dbs, dbr, subscription_id, new_tier, custom_features) ==
    LET got == get_by_id(dbs, subscription_id)
        base == SvcBase(dbs, dbr)
    IN IF ~got.found THEN [base EXCEPT !.raised = "SubscriptionNotFound"]
       ELSE Saved(base, SubRepoUpdate(dbs, update_tier(got.sub, new_tier, custom_features)))

\* A SubscriptionUpdate field that was not provided (None).
NoField == "none"
NoMaxDevices == 0
NoGrace == -1

\* routes/subscription.py update_subscription: every provided field is
\* assigned to the loaded entity, which is then saved.  The 404 raised for
\* a missing subscription is caught by the handler's own except Exception.
UpdateFields(s, request) ==
    [s EXCEPT
        !.tier = IF request.tier # NoField THEN request.tier ELSE @,
        !.status = IF request.status # NoField THEN request.status ELSE @,
        !.max_devices = IF request.max_devices # NoMaxDevices
                        THEN request.max_devices ELSE @,
        !.expires_at = IF request.expires_at # NoTime THEN request.expires_at ELSE @,
        !.grace_period_days = IF request.grace_period_days # NoGrace
                              THEN request.grace_period_days ELSE @,
        !.features = IF request.has_custom_features
                     THEN DictUpdate(@, request.custom_features) ELSE @]

\* routes/subscription.py update_subscription, run without interruption.
update_subscription(dbs, dbr, subscription_id, request) ==
    LET got == get_by_id(dbs, subscription_id)
        base == SvcBase(dbs, dbr)
    IN IF ~got.found THEN [base EXCEPT !.raised = "HTTPException"]
       ELSE Saved(base, SubRepoUpdate(dbs, UpdateFields(got.sub, request)))

\* SubscriptionService.get_subscription_analytics (the fields the model uses)
AnalyticsOf(s, devices, t) ==
    [raised |-> "none",
     status |-> s.status,
     is_active |-> is_active(s, t),
     is_expired |-> is_expired(s, t),
     is_in_grace_period |-> is_in_grace_period(s, t),
     days_until_expiry |-> days_until_expiry(s, t),
     total |-> Cardinality(devices),
     active |-> Cardinality({r \in devices : r.is_active}),
     max_allowed |-> s.max_devices,
     expires_at |-> s.expires_at]

\* SubscriptionService.get_subscription_analytics, run without interruption.
get_subscription_analytics(dbs, dbr, subscription_id, t) ==
    LET got == get_by_id(dbs, subscription_id)
    IN IF ~got.found THEN [raised |-> "SubscriptionNotFound"]
       ELSE AnalyticsOf(got.sub, get_by_subscription_id(dbr, subscription_id), t)

\* ------------------------------------------------------------------ state
\* now   the clock (day number)
\* subs  the committed subscription rows, by license key
\* rows  the committed device rows
\* resp  the last call or request and its answer
\* session_factory  whether db_manager._session_factory is set
\* pc, ctx, tx, presp   the calls in flight: the statement each runs next, the
\*        aggregate the call holds, its uncommitted writes, its answer
\* tok   the token last issued or forged; vres  the last verification
\* ent   an in-memory Subscription aggregate the domain methods act on
\* eres  the last domain-level call: its inputs and its result
VARIABLES now, subs, rows, resp, session_factory, pc, ctx, tx, presp, tok, vres, ent, eres

vars == <<now, subs, rows, resp, session_factory, pc, ctx, tx, presp, tok, vres, ent, eres>>
concVars == <<pc, ctx, tx, presp>>
tokVars == <<tok, vres>>
entVars == <<ent, eres>>

Procs == 1..NumProcs

BaseResp ==
    [op |-> "none", route |-> "none", key |-> "", device_id |-> "",
     update_last_seen |-> FALSE, status_code |-> 0, error |-> "none",
     action |-> "none", valid |-> FALSE, reason |-> "none", removed |-> FALSE,
     current_devices |-> 0, max_devices |-> 0, has_token |-> FALSE, token |-> << >>,
     info |-> << >>]

\* ------------------------------------------------------ database sessions
\* Mutant of initialize: the engine is built and the session factory set.
initialize_SetsFactory(factory) == [raised |-> "none", session_factory |-> TRUE]

\* DatabaseManager.initialize: its first statement logs database_url, a
\* local variable the method assigns two statements later, so the call
\* raises UnboundLocalError and _session_factory keeps its value.
initialize(factory) == [raised |-> "UnboundLocalError", session_factory |-> factory]

\* DatabaseManager.get_session before it yields: RuntimeError while no
\* session factory is set.
get_session(factory) == IF factory THEN "none" ELSE "RuntimeError"

\* Mutant of Committed: the session's writes are committed on an exception too.
Committed_NoRollback(dbs, dbr, r) == [subs |-> r.subs, rows |-> r.rows]

\* What the session leaves stored when the unit of work ends: commit when
\* the service method returned, rollback when it raised.
Committed(dbs, dbr, r) ==
    IF r.raised = "none" THEN [subs |-> r.subs, rows |-> r.rows]
    ELSE [subs |-> dbs, rows |-> dbr]

\* A call of a SubscriptionService method by the holder of a session: the
\* value it returns or the exception it raises (r), and what the session
\* leaves stored.
ServiceAnswer(op, dbs, dbr, license_key, device_id, r) ==
    [db |-> Committed(dbs, dbr, r),
     resp |-> [BaseResp EXCEPT !.op = op, !.key = license_key, !.device_id = device_id,
                               !.update_last_seen = r.update_last_seen,
                               !.error = r.raised, !.action = r.action,
                               !.valid = r.valid, !.reason = r.reason,
                               !.removed = r.removed,
                               !.current_devices = r.current_devices,
                               !.max_devices = r.max_devices,
                               !.has_token = r.has_token, !.token = r.token]]

\* routes/subscription.py activate_license: the exception handlers.
ActivateStatusCode(raised) ==
    CASE raised = "none" -> 200
      [] raised = "LicenseKeyInvalid" -> 401
      [] raised = "SubscriptionExpired" -> 403
      [] raised = "DeviceLimitExceeded" -> 429
      [] OTHER -> 500

\* routes/subscription.py activate_license: the answer to the service
\* result r, and what get_session leaves stored.
ActivateAnswer(dbs, dbr, license_key, device_id, r) ==
    [db |-> Committed(dbs, dbr, r),
     resp |-> [BaseResp EXCEPT !.op = "activate", !.route = "activate",
                               !.key = license_key, !.device_id = device_id,
                               !.status_code = ActivateStatusCode(r.raised),
                               !.error = r.raised, !.action = r.action,
                               !.current_devices = r.current_devices,
                               !.max_devices = r.max_devices,
                               !.has_token = r.has_token, !.token = r.token]]

\* routes/subscription.py validate_license: LicenseKeyInvalid is answered
\* with a negative result, any other exception with status 500.
ValidateAnswer(dbs, dbr, license_key, device_id, r) ==
    LET base == [BaseResp EXCEPT !.op = "validate", !.route = "validate",
                                 !.key = license_key, !.device_id = device_id,
                                 !.update_last_seen = r.update_last_seen]
    IN [db |-> Committed(dbs, dbr, r),
        resp |-> IF r.raised = "LicenseKeyInvalid"
                 THEN [base EXCEPT !.status_code = 200, !.reason = "invalid_license"]
                 ELSE IF r.raised # "none"
                 THEN [base EXCEPT !.status_code = 500, !.error = r.raised]
                 ELSE [base EXCEPT !.status_code = 200, !.valid = r.valid,
                                   !.reason = r.reason]]

\* routes/subscription.py deactivate_device
DeactivateAnswer(dbs, dbr, license_key, device_id, r) ==
    LET base == [BaseResp EXCEPT !.op = "deactivate", !.route = "deactivate",
                                 !.key = license_key, !.device_id = device_id]
    IN [db |-> Committed(dbs, dbr, r),
        resp |-> IF r.raised = "LicenseKeyInvalid"
                 THEN [base EXCEPT !.status_code = 401, !.error = r.raised]
                 ELSE IF r.raised # "none"
                 THEN [base EXCEPT !.status_code = 500, !.error = r.raised]
                 ELSE [base EXCEPT !.status_code = 200, !.removed = r.removed]]

\* routes/subscription.py suspend_subscription, cancel_subscription,
\* resume_subscription, extend_subscription, update_subscription_tier and
\* update_subscription share their exception handlers.
LifecycleRoute(op, dbs, dbr, license_key, r) ==
    LET base == [BaseResp EXCEPT !.op = op, !.route = op, !.key = license_key]
    IN [db |-> Committed(dbs, dbr, r),
        resp |-> IF r.raised = "SubscriptionNotFound"
                 THEN [base EXCEPT !.status_code = 404, !.error = r.raised]
                 ELSE IF r.raised # "none"
                 THEN [base EXCEPT !.status_code = 500, !.error = r.raised]
                 ELSE [base EXCEPT !.status_code = 200]]

\* routes/subscription.py create_subscription
CreateAnswer(dbs, dbr, license_key, r) ==
    LET base == [BaseResp EXCEPT !.op = "create", !.route = "create", !.key = license_key]
    IN [db |-> Committed(dbs, dbr, r),
        resp |-> IF r.raised = "CustomerNotFound"
                 THEN [base EXCEPT !.status_code = 404, !.error = r.raised]
                 ELSE IF r.raised # "none"
                 THEN [base EXCEPT !.status_code = 500, !.error = r.raised]
                 ELSE [base EXCEPT !.status_code = 201]]

\* The answer of the route handler of op to the service result r.
RouteAnswer(op, dbs, dbr, license_key, device_id, r) ==
    CASE op = "activate" -> ActivateAnswer(dbs, dbr, license_key, device_id, r)
      [] op = "validate" -> ValidateAnswer(dbs, dbr, license_key, device_id, r)
      [] op = "deactivate" -> DeactivateAnswer(dbs, dbr, license_key, device_id, r)
      [] op = "create" -> CreateAnswer(dbs, dbr, license_key, r)
      [] OTHER -> LifecycleRoute(op, dbs, dbr, license_key, r)

\* get_subscription_analytics: the figures a (or the exception) as the
\* service returns them, or as the route answers them.
AnalyticsAnswer(via, dbs, dbr, license_key, a) ==
    LET base == [BaseResp EXCEPT !.op = "analytics", !.key = license_key]
        http == [base EXCEPT !.route = "analytics"]
    IN [db |-> [subs |-> dbs, rows |-> dbr],
        resp |-> IF via = "service"
                 THEN IF a.raised # "none" THEN [base EXCEPT !.error = a.raised]
                      ELSE [base EXCEPT !.info = a]
                 ELSE IF a.raised = "SubscriptionNotFound"
                 THEN [http EXCEPT !.status_code = 404, !.error = a.raised]
                 ELSE IF a.raised # "none"
                 THEN [http EXCEPT !.status_code = 500, !.error = a.raised]
                 ELSE [http EXCEPT !.status_code = 200, !.info = a]]

\* ----------------------------------------------------------------- actions
InitSub(key, status, tier, features, starts_at, expires_at, grace, max_devices) ==
    [id |-> SubId(key), customer_id |-> "c1", license_key |-> key, status |-> status,
     tier |-> tier, features |-> features, max_devices |-> max_devices, starts_at |-> starts_at,
     expires_at |-> expires_at, grace_period_days |-> grace]

NoCtx == [key |-> "", device_id |-> "", v |-> << >>]
NoTx == [rows |-> {}, has_sub |-> FALSE, created |-> FALSE, sub |-> << >>]
NoTok == [origin |-> "none", issued |-> << >>, token |-> << >>]
NoVres == [kind |-> "none", result |-> << >>]

\* No call is in flight; DatabaseManager.__init__ left no session factory.
ConcInit ==
    /\ session_factory = FALSE
    /\ pc = [p \in Procs |-> "idle"]
    /\ ctx = [p \in Procs |-> NoCtx]
    /\ tx = [p \in Procs |-> NoTx]
    /\ presp = [p \in Procs |-> BaseResp]

TokInit ==
    /\ tok = NoTok
    /\ vres = NoVres

NoEnt == [id |-> "", devices |-> << >>]
NoEres == [op |-> "none"]

EntIdle ==
    /\ ent = NoEnt
    /\ eres = NoEres

\* A stored subscription of any status, start, expiry, grace period and
\* device limit, with no device bound yet.
InitStored ==
    /\ now = 0
    /\ \E status \in Statuses, starts_at \in {0, 1}, expires_at \in {NoTime, 1},
          grace \in {0, 1}, max_devices \in 1..MaxDevices :
          subs = [k \in Keys |-> InitSub(k, status, "basic", << >>, starts_at, expires_at,
                                         grace, max_devices)]
    /\ rows = {}
    /\ resp = BaseResp
    /\ ConcInit
    /\ TokInit
    /\ EntIdle

\* An active subscription that expires on day 0, with one day of grace and
\* one device slot.
Init ==
    /\ now = 0
    /\ subs = [k \in Keys |-> InitSub(k, "active", "basic", << >>, 0, 0, 1, 1)]
    /\ rows = {}
    /\ resp = BaseResp
    /\ ConcInit
    /\ TokInit
    /\ EntIdle

\* --------------------------------------------------------- units of work
\* The holder of a database session builds the repositories and a
\* SubscriptionService over it, calls one method of the service, commits
\* when the method returns and drops the session and its writes when it
\* raises.  The method returns to the event loop at every statement it
\* awaits, and the other calls run in between, each in its own session
\* (READ COMMITTED).  For call p, ctx[p] holds its inputs and the aggregate
\* it loaded, as mutated in memory; tx[p] what its session wrote and has
\* not committed; pc[p] the statement it runs next.  via tells who holds
\* the session: "service" for a direct caller of the service, "http" for a
\* route handler that received the session of get_session.
\* t is the clock the method read when it built or touched its device,
\* token the token it has signed.
InFlight(via, op, key, device_id, v, t) ==
    [via |-> via, op |-> op, key |-> key, device_id |-> device_id, v |-> v, t |-> t,
     token |-> << >>]

\* Call slots are interchangeable: a new call takes the first idle one.
SlotFree(p) == pc[p] = "idle" /\ \A q \in Procs : q < p => pc[q] # "idle"

\* The stored rows as they are once p's session commits: its device rows,
\* and every scalar column of the subscription row as its UPDATE set them.
Written(p) ==
    [subs |-> IF tx[p].has_sub THEN SubRepoUpdate(subs, tx[p].sub).subs
              ELSE IF tx[p].created THEN SubRepoCreate(subs, tx[p].sub).subs
              ELSE subs,
     rows |-> {r \in rows : ~\E w \in tx[p].rows : SameDevice(w, r)} \cup tx[p].rows]

\* The service result of call p so far, with what its session wrote.
Dirty(p) == [SvcBase(subs, rows) EXCEPT !.subs = Written(p).subs, !.rows = Written(p).rows]

\* Another session holds the lock of the subscription row p updates.
RowLocked(p) == \E q \in Procs \ {p} : tx[q].has_sub /\ tx[q].sub.id = ctx[p].v.sub.id

\* Another session holds an uncommitted write of the device row dev.  An
\* UPDATE locks the row it matches whether or not it changes a column.
DeviceLocked(p, dev) == \E q \in Procs \ {p} : \E w \in tx[q].rows : SameDevice(w, dev)

\* The method of call p returns or raises: its session commits or is rolled
\* back, and the caller has the answer.
Finish(p, out) ==
    /\ subs' = out.db.subs
    /\ rows' = out.db.rows
    /\ resp' = out.resp
    /\ pc' = [pc EXCEPT ![p] = "idle"]
    /\ ctx' = [ctx EXCEPT ![p] = NoCtx]
    /\ tx' = [tx EXCEPT ![p] = NoTx]
    /\ UNCHANGED <<now, session_factory, presp, tokVars, entVars>>

\* Call p ran a statement and awaits the next one.
Proceed(p, stage, c, w) ==
    /\ pc' = [pc EXCEPT ![p] = stage]
    /\ ctx' = [ctx EXCEPT ![p] = c]
    /\ tx' = [tx EXCEPT ![p] = w]
    /\ UNCHANGED <<now, subs, rows, resp, session_factory, presp, tokVars, entVars>>

\* The answer to service result r of operation op: the result itself for a
\* direct caller, the route's response for an HTTP request.
Answer(via, op, license_key, device_id, r) ==
    IF via = "http" THEN RouteAnswer(op, subs, rows, license_key, device_id, r)
    ELSE ServiceAnswer(op, subs, rows, license_key, device_id, r)

AnswerOf(p, r) == Answer(ctx[p].via, ctx[p].op, ctx[p].key, ctx[p].device_id, r)

\* The subscription repository the service was built over: the shipped
\* SubscriptionRepository, or an ISubscriptionRepository whose aggregates
\* carry the device rows the query selects.
Shipped == "SubscriptionRepository"
Carrying == "ISubscriptionRepository"

Load(repo, dbs, dbr, license_key) ==
    IF repo = Carrying THEN get_by_license_key_with_devices(dbs, dbr, license_key)
    ELSE get_by_license_key(dbs, license_key)

\* activate_license up to its first write: get_by_license_key, then
\* validate_for_activation.  The already_active branch awaits nothing more
\* before the token.
ActivateBegin(p, via, repo, K) ==
    /\ SlotFree(p)
    /\ \E k \in K, d \in DeviceIds :
          LET got == Load(repo, subs, rows, k)
              base == SvcBase(subs, rows)
          IN IF ~got.found
             THEN Finish(p, Answer(via, "activate", k, d,
                                   [base EXCEPT !.raised = "LicenseKeyInvalid"]))
             ELSE LET v == validate_for_activation(got.sub, d, now)
                  IN IF v.raised # "none"
                     THEN Finish(p, Answer(via, "activate", k, d,
                                    [base EXCEPT !.raised = v.raised,
                                                 !.current_devices = v.current_devices,
                                                 !.max_devices = v.max_devices]))
                     ELSE Proceed(p, IF v.action = "already_active" THEN "token" ELSE "write",
                                  InFlight(via, "activate", k, d, v, now), NoTx)

\* validate_license up to device_repo.update: get_by_license_key, the
\* device lookup and the checks, and device.update_last_seen().  U holds
\* the values of update_last_seen the callers pass.
ValidateBegin(p, via, repo, K, U) ==
    /\ SlotFree(p)
    /\ \E k \in K, d \in DeviceIds, uls \in U :
          LET got == Load(repo, subs, rows, k)
              base == [SvcBase(subs, rows) EXCEPT !.update_last_seen = uls]
          IN IF ~got.found
             THEN Finish(p, Answer(via, "validate", k, d,
                                   [base EXCEPT !.raised = "LicenseKeyInvalid"]))
             ELSE LET o == validate_outcome(got.sub, d, uls, now)
                  IN IF o.touch
                     THEN Proceed(p, "touch",
                                  InFlight(via, "validate", k, d,
                                           [action |-> "none", sub |-> got.sub, idx |-> o.idx,
                                            valid |-> o.valid, reason |-> o.reason],
                                           now),
                                  NoTx)
                     ELSE Finish(p, Answer(via, "validate", k, d,
                                           [base EXCEPT !.valid = o.valid,
                                                        !.reason = o.reason]))

\* validate_license: device_repo.update of the touched device.  The UPDATE
\* waits while another session holds an uncommitted write of the row; the
\* session then holds the row as the UPDATE left it, changed or not.
TouchDevice ==
    \E p \in Procs :
        /\ pc[p] = "touch"
        /\ LET device == DeviceUpdateLastSeen(ctx[p].v.sub.devices[ctx[p].v.idx], ctx[p].t)
               updated == DeviceRepoUpdate(rows, device)
           IN /\ ~DeviceLocked(p, device)
              /\ IF updated.raised # "none"
                 THEN Finish(p, AnswerOf(p, [Dirty(p) EXCEPT !.raised = updated.raised,
                                                             !.update_last_seen = TRUE]))
                 ELSE Proceed(p, "commit", ctx[p],
                              [tx[p] EXCEPT !.rows =
                                  {r \in updated.rows : SameDevice(r, device)}])

\* deactivate_device up to subscription_repo.update: get_by_license_key and
\* remove_device; the UPDATE runs when a device was removed.
DeactivateBegin(p, via, repo, K) ==
    /\ SlotFree(p)
    /\ \E k \in K, d \in DeviceIds :
          LET got == Load(repo, subs, rows, k)
              base == SvcBase(subs, rows)
          IN IF ~got.found
             THEN Finish(p, Answer(via, "deactivate", k, d,
                                   [base EXCEPT !.raised = "LicenseKeyInvalid"]))
             ELSE LET r == remove_device(got.sub, d)
                  IN IF r.removed
                     THEN Proceed(p, "update",
                                  InFlight(via, "deactivate", k, d,
                                           [action |-> "none", sub |-> r.sub], NoTime),
                                  NoTx)
                     ELSE Finish(p, Answer(via, "deactivate", k, d, base))

\* The method a lifecycle or administrative call runs on the aggregate it
\* loaded; arg is the call's argument.
Mutate(op, s, arg, t) ==
    CASE op = "suspend" -> sub_suspend(s)
      [] op = "cancel" -> sub_cancel(s)
      [] op = "resume" -> sub_resume(s)
      [] op = "update" -> UpdateFields(s, arg)
      [] op = "extend" -> extend_expiry(s, arg, t)
      [] op = "tier" -> update_tier(s, arg.new_tier, arg.custom_features)

\* A lifecycle or administrative call up to its UPDATE: get_by_id, then
\* the mutation of the aggregate in memory.
LifecycleBegin(p, via, op, k, notfound, arg) ==
    /\ SlotFree(p)
    /\ LET got == get_by_id(subs, SubId(k))
       IN IF ~got.found
          THEN Finish(p, Answer(via, op, k, "",
                                [SvcBase(subs, rows) EXCEPT !.raised = notfound]))
          ELSE Proceed(p, "update",
                       InFlight(via, op, k, "", [action |-> "none",
                                                     sub |-> Mutate(op, got.sub, arg, now)],
                                NoTime),
                       NoTx)

\* create_subscription up to its INSERT: customer_repo.get_by_id, then the
\* entity with a generated license key, active from the clock read for
\* duration_days days, with the entity's default grace period.
NewSubscription(customer_id, license_key, tier, duration_days, max_devices, custom_features, t) ==
    [id |-> SubId(license_key), customer_id |-> customer_id, license_key |-> license_key,
     status |-> "active", tier |-> tier, features |-> FeatureSet(tier, custom_features),
     max_devices |-> max_devices, starts_at |-> t, expires_at |-> t + duration_days,
     grace_period_days |-> DefaultGracePeriodDays, devices |-> << >>]

\* K holds the license keys the generator can return; it returns one no
\* row and no call in flight has.
CreateBegin(p, via, K) ==
    /\ SlotFree(p)
    /\ \E c \in Customers \cup {UnknownCustomer}, days \in DurationDays,
          m \in 1..MaxDevices :
          IF c \notin Customers
          THEN Finish(p, Answer(via, "create", "", "",
                                [SvcBase(subs, rows) EXCEPT !.raised = "CustomerNotFound"]))
          ELSE \E k \in K :
                  /\ k \notin DOMAIN subs
                  /\ \A q \in Procs : pc[q] # "idle" => ctx[q].key # k
                  /\ Proceed(p, "insert",
                             InFlight(via, "create", k, "",
                                      [action |-> "none",
                                       sub |-> NewSubscription(c, k, "basic", days, m,
                                                               << >>, now)],
                                      now),
                             NoTx)

\* get_subscription_analytics: get_by_id
AnalyticsBegin(p, via, K) ==
    /\ SlotFree(p)
    /\ \E k \in K :
          LET got == get_by_id(subs, SubId(k))
          IN IF ~got.found
             THEN Finish(p, AnalyticsAnswer(via, subs, rows, k,
                                            [raised |-> "SubscriptionNotFound"]))
             ELSE Proceed(p, "read",
                          InFlight(via, "analytics", k, "",
                                   [action |-> "none", sub |-> got.sub], NoTime),
                          NoTx)

\* create_subscription: subscription_repo.create, the INSERT and the read
\* back of the new row, which stays uncommitted.
InsertSubscription ==
    \E p \in Procs :
        /\ pc[p] = "insert"
        /\ LET c == SubRepoCreate(subs, ctx[p].v.sub)
           IN IF c.raised # "none"
              THEN Finish(p, AnswerOf(p, [Dirty(p) EXCEPT !.raised = c.raised]))
              ELSE Proceed(p, "commit", ctx[p],
                           [tx[p] EXCEPT !.created = TRUE, !.sub = ctx[p].v.sub])

\* activate_license: device_repo.create and add_device (can_activate), or
\* device_repo.update (reactivated).  The statement waits while another
\* session holds an uncommitted write of the row with the same unique key,
\* changed or not; the session then holds the row as the statement left it.
InsertDevice ==
    \E p \in Procs :
        /\ pc[p] = "write"
        /\ ~DeviceLocked(p, NewDevice(ctx[p].v.sub.id, ctx[p].device_id, now))
        /\ LET w == ActivateWrite(rows, ctx[p].v, ctx[p].device_id, ctx[p].t)
           IN IF w.raised # "none"
              THEN Finish(p, AnswerOf(p, [Dirty(p) EXCEPT !.raised = w.raised,
                                                          !.current_devices = w.current_devices,
                                                          !.max_devices = w.max_devices]))
              ELSE Proceed(p, IF ctx[p].v.action = "can_activate" THEN "update" ELSE "token",
                           [ctx[p] EXCEPT !.v.sub = w.sub],
                           [tx[p] EXCEPT !.rows =
                               {r \in w.rows : SameDevice(r,
                                   NewDevice(ctx[p].v.sub.id, ctx[p].device_id, now))}])

\* subscription_repo.update of call p: the UPDATE waits while another
\* session holds the row's lock.  fault tells whether the statement fails.
UpdateStatement(p, fault) ==
        /\ pc[p] = "update"
        /\ LET u == SubRepoUpdate(subs, ctx[p].v.sub)
               held == [tx[p] EXCEPT !.has_sub = TRUE, !.sub = ctx[p].v.sub]
           IN IF fault = "update_fails"
              THEN Finish(p, AnswerOf(p, [Dirty(p) EXCEPT !.raised = "DatabaseException"]))
              ELSE /\ ~RowLocked(p)
                   /\ IF u.raised # "none"
                      THEN Finish(p, AnswerOf(p, [Dirty(p) EXCEPT !.raised = u.raised]))
                      ELSE Proceed(p, IF ctx[p].op = "activate" THEN "token" ELSE "commit",
                                   ctx[p], held)

UpdateRow == \E p \in Procs : UpdateStatement(p, "none")

\* activate_license: to_token_payload and generate_subscription_token, with
\* the clock of the moment.
SignToken ==
    \E p \in Procs, j \in Jtis :
        /\ pc[p] = "token"
        /\ Proceed(p, "commit",
                   [ctx[p] EXCEPT !.token = generate_subscription_token(
                                               to_token_payload(ctx[p].v.sub, ctx[p].device_id),
                                               now, j)],
                   tx[p])

\* The method of call p returns its result and the session commits.
CommitRequest ==
    \E p \in Procs :
        /\ pc[p] = "commit"
        /\ Finish(p, AnswerOf(p,
              CASE ctx[p].op = "activate" ->
                     [Dirty(p) EXCEPT !.action = ctx[p].v.action, !.has_token = TRUE,
                                      !.token = ctx[p].token]
                [] ctx[p].op = "validate" ->
                     [Dirty(p) EXCEPT !.valid = ctx[p].v.valid, !.reason = ctx[p].v.reason,
                                      !.update_last_seen = TRUE]
                [] ctx[p].op = "deactivate" -> [Dirty(p) EXCEPT !.removed = TRUE]
                [] OTHER -> Dirty(p)))

\* get_subscription_analytics: device_repo.get_by_subscription_id, then the
\* figures of the subscription loaded before.
ReadDevices ==
    \E p \in Procs :
        /\ pc[p] = "read"
        /\ Finish(p, AnalyticsAnswer(ctx[p].via, subs, rows, ctx[p].key,
                        AnalyticsOf(ctx[p].v.sub,
                                    get_by_subscription_id(rows, ctx[p].v.sub.id), now)))

\* ------------------------------------------------------ calls of the service
\* SubscriptionService.activate_license, called over the shipped repositories
Activate == \E p \in Procs : ActivateBegin(p, "service", Shipped, Keys \cup {UnknownKey})

\* activate_license while the database refuses the subscription update or
\* the token cannot be signed.
ActivateFailing ==
    \E p \in Procs :
        \/ pc[p] = "update" /\ ctx[p].op = "activate" /\ UpdateStatement(p, "update_fails")
        \/ /\ pc[p] = "token"
           /\ Finish(p, AnswerOf(p, [Dirty(p) EXCEPT !.raised = "TokenException"]))

\* SubscriptionService.validate_license
Validate ==
    \E p \in Procs : ValidateBegin(p, "service", Shipped, Keys \cup {UnknownKey}, {TRUE})

\* SubscriptionService.deactivate_device
Deactivate == \E p \in Procs : DeactivateBegin(p, "service", Shipped, Keys \cup {UnknownKey})

\* SubscriptionService.suspend_subscription
Suspend ==
    \E p \in Procs, k \in Keys :
        LifecycleBegin(p, "service", "suspend", k, "SubscriptionNotFound", << >>)

\* SubscriptionService.cancel_subscription
Cancel ==
    \E p \in Procs, k \in Keys :
        LifecycleBegin(p, "service", "cancel", k, "SubscriptionNotFound", << >>)

\* SubscriptionService.resume_subscription
Resume ==
    \E p \in Procs, k \in Keys :
        LifecycleBegin(p, "service", "resume", k, "SubscriptionNotFound", << >>)

\* SubscriptionService.get_subscription_analytics
Analytics == \E p \in Procs : AnalyticsBegin(p, "service", Keys \cup {UnknownKey})

\* A day passes, whatever statements the calls in flight have run.
Tick ==
    /\ now < MaxNow
    /\ now' = now + 1
    /\ resp' = [BaseResp EXCEPT !.op = "tick"]
    /\ UNCHANGED <<subs, rows, session_factory, concVars, tokVars, entVars>>

\* ------------------------------------------------------------ HTTP requests
\* The application's startup (lifespan of main_fixed.py): init_database
\* calls db_manager.initialize and the exception ends the startup.
InitDatabase ==
    /\ session_factory' = initialize(session_factory).session_factory
    /\ resp' = [BaseResp EXCEPT !.op = "init_database",
                                !.error = initialize(session_factory).raised]
    /\ UNCHANGED <<now, subs, rows, concVars, tokVars, entVars>>

\* Bodies of PUT /subscriptions/{id}: a status, an expiry date, or nothing.
UpdateRequests ==
    LET none == [tier |-> NoField, status |-> NoField, max_devices |-> NoMaxDevices,
                 expires_at |-> NoTime, grace_period_days |-> NoGrace,
                 has_custom_features |-> FALSE, custom_features |-> << >>]
    IN {none, [none EXCEPT !.status = "expired"], [none EXCEPT !.expires_at = 2]}

\* The handler of a route, once its dependencies handed it a session and a
\* service over the shipped repositories.  K holds the license keys of the
\* requests.
Handler(route, K) ==
    \/ route = "activate" /\ \E p \in Procs : ActivateBegin(p, "http", Shipped, K)
    \/ route = "validate" /\ \E p \in Procs : ValidateBegin(p, "http", Shipped, K, {TRUE})
    \/ route = "deactivate" /\ \E p \in Procs : DeactivateBegin(p, "http", Shipped, K)
    \/ route = "create" /\ \E p \in Procs : CreateBegin(p, "http", K)
    \/ route = "analytics" /\ \E p \in Procs : AnalyticsBegin(p, "http", K)
    \/ route \in {"suspend", "cancel", "resume"} /\
          \E p \in Procs, k \in K :
              LifecycleBegin(p, "http", route, k, "SubscriptionNotFound", << >>)
    \/ route = "update" /\
          \E p \in Procs, k \in K, request \in UpdateRequests :
              LifecycleBegin(p, "http", "update", k, "HTTPException", request)

\* A request to one of the routes: every route depends on get_session, and
\* the exception it raises is answered with status 500 before the handler
\* is entered.
Http(Routes, K) ==
    \E route \in Routes :
        IF get_session(session_factory) # "none"
        THEN /\ resp' = [BaseResp EXCEPT !.op = "http", !.route = route,
                                         !.status_code = 500,
                                         !.error = get_session(session_factory)]
             /\ UNCHANGED <<now, subs, rows, session_factory, concVars, tokVars, entVars>>
        ELSE Handler(route, K)

LicenseRoutes == {"activate", "validate", "deactivate"}

\* POST /subscription/activate, /validate or /deactivate
HttpRequest == Http(LicenseRoutes, Keys \cup {UnknownKey})

Next ==
    \/ Activate
    \/ ActivateFailing
    \/ Validate
    \/ Deactivate
    \/ Suspend
    \/ Cancel
    \/ Resume
    \/ InsertDevice
    \/ UpdateRow
    \/ SignToken
    \/ CommitRequest
    \/ HttpRequest
    \/ InitDatabase
    \/ Tick

Spec == Init /\ [][Next]_vars

\* ---------------------------------------------------------- analytics calls
\* Subscriptions of every status, start, expiry and grace period, read by
\* analytics calls while suspend and resume calls run.
NextAnalytics ==
    \/ Analytics
    \/ ReadDevices
    \/ Suspend
    \/ Resume
    \/ UpdateRow
    \/ CommitRequest
    \/ Tick

SpecAnalytics == InitStored /\ [][NextAnalytics]_vars

\* --------------------------------------- concurrent activation requests
\* Each request p is one activate_license call, run in its own database
\* session; ctx[p] holds its license key, its device id and the aggregate
\* it loaded, presp[p] its answer with the status code the activate route
\* gives the result.  A request advances at each repository call it
\* awaits; another request may run between two of its calls.  The
\* session's writes are visible to the others once it has committed.
DeviceOf(p) == ctx[p].device_id

\* What request p's session reads: the committed device rows overlaid with
\* the rows it has written itself.
Visible(p) == {r \in rows : ~\E w \in tx[p].rows : SameDevice(w, r)} \cup tx[p].rows

\* Request p ends with an exception: the session's writes are rolled back
\* and the answer carries the status code of the exception.
CFail(p, raised, current_devices, max_devices) ==
    /\ pc' = [pc EXCEPT ![p] = "done"]
    /\ tx' = [tx EXCEPT ![p] = NoTx]
    /\ presp' = [presp EXCEPT ![p] =
                    [BaseResp EXCEPT !.op = "activate", !.key = ctx[p].key,
                                     !.device_id = DeviceOf(p),
                                     !.status_code = ActivateStatusCode(raised),
                                     !.error = raised,
                                     !.current_devices = current_devices,
                                     !.max_devices = max_devices]]
    /\ UNCHANGED ctx

\* activate_license: get_by_license_key, then validate_for_activation.
CLoad(p, d) ==
    /\ pc[p] = "idle"
    /\ \E k \in Keys :
          LET got == get_by_license_key(subs, k)
              v == validate_for_activation(got.sub, d, now)
          IN IF v.raised # "none"
             THEN /\ pc' = [pc EXCEPT ![p] = "done"]
                  /\ ctx' = [ctx EXCEPT ![p] = [key |-> k, device_id |-> d, v |-> v, t |-> now]]
                  /\ presp' = [presp EXCEPT ![p] =
                                  [BaseResp EXCEPT !.op = "activate", !.key = k,
                                                   !.device_id = d,
                                                   !.status_code = ActivateStatusCode(v.raised),
                                                   !.error = v.raised,
                                                   !.current_devices = v.current_devices,
                                                   !.max_devices = v.max_devices]]
                  /\ UNCHANGED tx
             ELSE /\ pc' = [pc EXCEPT ![p] = "write"]
                  /\ ctx' = [ctx EXCEPT ![p] = [key |-> k, device_id |-> d, v |-> v, t |-> now]]
                  /\ UNCHANGED <<tx, presp>>
    /\ UNCHANGED <<now, subs, rows, resp, session_factory, tokVars, entVars>>

\* activate_license: device_repo.create (or update) and add_device.  The
\* statement waits while another session holds an uncommitted write of the
\* row with the same unique key; the already_active branch writes nothing.
CWrite(p) ==
    /\ pc[p] = "write"
    /\ ctx[p].v.action # "already_active" =>
           ~DeviceLocked(p, NewDevice(ctx[p].v.sub.id, DeviceOf(p), now))
    /\ LET w == ActivateWrite(Visible(p), ctx[p].v, DeviceOf(p), ctx[p].t)
       IN IF w.raised # "none"
          THEN CFail(p, w.raised, w.current_devices, w.max_devices)
          ELSE /\ pc' = [pc EXCEPT ![p] = "update"]
               /\ tx' = [tx EXCEPT ![p].rows =
                            IF ctx[p].v.action = "already_active" THEN tx[p].rows
                            ELSE {r \in w.rows : SameDevice(r,
                                     NewDevice(ctx[p].v.sub.id, DeviceOf(p), now))}]
               /\ ctx' = [ctx EXCEPT ![p].v.sub = w.sub]
               /\ UNCHANGED presp
    /\ UNCHANGED <<now, subs, rows, resp, session_factory, tokVars, entVars>>

\* activate_license: subscription_repo.update.  The UPDATE waits while
\* another session holds the row's lock.
CUpdate(p) ==
    /\ pc[p] = "update"
    /\ ctx[p].v.action = "can_activate" => ~\E q \in Procs \ {p} : tx[q].has_sub
    /\ tx' = [tx EXCEPT ![p].has_sub = (ctx[p].v.action = "can_activate"),
                        ![p].sub = ctx[p].v.sub]
    /\ pc' = [pc EXCEPT ![p] = "token"]
    /\ UNCHANGED <<now, subs, rows, resp, session_factory, ctx, presp, tokVars, entVars>>

\* activate_license: the token, signed with the clock read after the UPDATE,
\* and the result.
CToken(p) ==
    /\ pc[p] = "token"
    /\ \E j \in Jtis :
          presp' = [presp EXCEPT ![p] =
                       [BaseResp EXCEPT !.op = "activate", !.key = ctx[p].key,
                                        !.device_id = DeviceOf(p), !.status_code = 200,
                                        !.action = ctx[p].v.action, !.has_token = TRUE,
                                        !.token = generate_subscription_token(
                                                     to_token_payload(ctx[p].v.sub, DeviceOf(p)),
                                                     now, j)]]
    /\ pc' = [pc EXCEPT ![p] = "commit"]
    /\ UNCHANGED <<now, subs, rows, resp, session_factory, ctx, tx, tokVars, entVars>>

\* get_session: the handler returned, the session commits.
CCommit(p) ==
    /\ pc[p] = "commit"
    /\ rows' = {r \in rows : ~\E w \in tx[p].rows : SameDevice(w, r)} \cup tx[p].rows
    /\ subs' = IF tx[p].has_sub THEN SubRepoUpdate(subs, tx[p].sub).subs ELSE subs
    /\ tx' = [tx EXCEPT ![p] = NoTx]
    /\ pc' = [pc EXCEPT ![p] = "done"]
    /\ UNCHANGED <<now, resp, session_factory, ctx, presp, tokVars, entVars>>

NextConc ==
    \/ \E p \in Procs : CLoad(p, DevSeq[p])
    \/ \E p \in Procs : CWrite(p)
    \/ \E p \in Procs : CUpdate(p)
    \/ \E p \in Procs : CToken(p)
    \/ \E p \in Procs : CCommit(p)
    \/ Tick

SpecConc == InitStored /\ [][NextConc]_vars

\* The concurrent requests all ask for the same device id.
NextSame ==
    \/ \E p \in Procs : CLoad(p, DevSeq[1])
    \/ \E p \in Procs : CWrite(p)
    \/ \E p \in Procs : CUpdate(p)
    \/ \E p \in Procs : CToken(p)
    \/ \E p \in Procs : CCommit(p)

SpecSame == InitStored /\ [][NextSame]_vars

\* ------------------------------------------------------ token authority
\* A usable subscription of any tier, with or without custom features.
InitTok ==
    /\ now = 0
    /\ \E tier \in Tiers, c \in DOMAIN CustomFeatures, expires_at \in {NoTime, 20, 35} :
          subs = [k \in Keys |-> InitSub(k, "active", tier, CustomFeatures[c], 0, expires_at, 7, 1)]
    /\ rows = {}
    /\ resp = BaseResp
    /\ ConcInit
    /\ TokInit
    /\ EntIdle

\* activate_license's last step: the token for the aggregate's payload.
IssueSubscriptionToken ==
    \E k \in Keys, d \in DeviceIds, j \in Jtis :
        LET payload == to_token_payload(get_by_license_key(subs, k).sub, d)
        IN /\ tok' = [origin |-> "subscription", issued |-> payload,
                      token |-> generate_subscription_token(payload, now, j)]
           /\ vres' = NoVres
           /\ UNCHANGED <<now, subs, rows, resp, session_factory, concVars, entVars>>

\* A dashboard login: an access token for the user.
IssueAccessToken ==
    \E u \in Users :
        /\ tok' = [origin |-> "access", issued |-> u, token |-> generate_access_token(u, now)]
        /\ vres' = NoVres
        /\ UNCHANGED <<now, subs, rows, resp, session_factory, concVars, entVars>>

\* The claims of a token rewritten for the other trust domain.
Retarget(payload, iss, aud) == [payload EXCEPT !.iss = iss, !.aud = aud]

\* A token with its payload segment replaced and its signature kept.
WithClaims(token, payload) == <<token[1], EncodeSegment(payload), token[3]>>

\* What a client holding a token and the public key can build from it: the
\* same claims signed with HS256 under the public key, signed with a key of
\* its own, unsigned, or rewritten (issuer and audience, or a later expiry)
\* with the old signature or an HS256 signature under the public key.
Forgeries(token) ==
    LET claims == get_unverified_claims(token)
        own_key == generate_private_key(2)
    IN {jwt_encode(claims, JwtKeys.public, "HS256"),
        jwt_encode(claims, own_key, "RS256"),
        jwt_encode(claims, own_key, "none"),
        WithClaims(token, Retarget(claims, "flowlytix-licensing", "flowlytix-app")),
        WithClaims(token, Retarget(claims, "flowlytix-dashboard", "flowlytix-dashboard")),
        jwt_encode(Retarget(claims, "flowlytix-licensing", "flowlytix-app"),
                   JwtKeys.public, "HS256"),
        WithClaims(token, [claims EXCEPT !.exp = @ + TokenTtlDays])}

Forge ==
    /\ tok.origin \in {"subscription", "access"}
    /\ \E f \in Forgeries(tok.token) \ {tok.token} :
          tok' = [origin |-> "forged", issued |-> tok.issued, token |-> f]
    /\ vres' = NoVres
    /\ UNCHANGED <<now, subs, rows, resp, session_factory, concVars, entVars>>

\* Ten days pass.
TokTick ==
    /\ now < TokMaxNow
    /\ now' = now + 10
    /\ vres' = NoVres
    /\ UNCHANGED <<subs, rows, resp, session_factory, concVars, tok, entVars>>

\* The client application verifies the token it holds.
VerifySubscription ==
    /\ tok.origin # "none"
    /\ vres' = [kind |-> "subscription", result |-> verify_subscription_token(tok.token, now)]
    /\ UNCHANGED <<now, subs, rows, resp, session_factory, concVars, tok, entVars>>

\* The dashboard verifies the token it was sent.
VerifyAccess ==
    /\ tok.origin # "none"
    /\ vres' = [kind |-> "access", result |-> verify_access_token(tok.token, now)]
    /\ UNCHANGED <<now, subs, rows, resp, session_factory, concVars, tok, entVars>>

NextTok ==
    \/ IssueSubscriptionToken
    \/ IssueAccessToken
    \/ Forge
    \/ TokTick
    \/ VerifySubscription
    \/ VerifyAccess

SpecTok == InitTok /\ [][NextTok]_vars

\* ------------------------------------------- the aggregate's own methods
\* The Subscription aggregate as a caller of the domain layer holds it: the
\* methods act on the object and its device list, with no repository between.
InitEnt ==
    /\ now = 0
    /\ subs = [k \in Keys |-> InitSub(k, "active", "basic", << >>, 0, NoTime, 7, 1)]
    /\ rows = {}
    /\ resp = BaseResp
    /\ ConcInit
    /\ TokInit
    /\ \E status \in Statuses, max_devices \in 1..MaxDevices :
          ent = SubModelToEntity(InitSub("K1", status, "basic", << >>, 0, NoTime, 7, max_devices))
    /\ eres = [op |-> "none", device_id |-> "", ok |-> FALSE, before |-> NoEnt,
               prev |-> "none", from |-> "none", snap |-> {}]

\* One method call on the aggregate.  before is the aggregate as it was and
\* prev the call before this one; from and snap are the status and the
\* active devices immediately before the last cancel or suspend.
EntCall(op, device_id, ok, after) ==
    /\ ent' = after
    /\ eres' = [op |-> op, device_id |-> device_id, ok |-> ok, before |-> ent,
                prev |-> eres.op,
                from |-> IF op \in {"cancel", "suspend"} THEN ent.status ELSE eres.from,
                snap |-> IF op \in {"cancel", "suspend"} THEN ActiveIdx(ent) ELSE eres.snap]
    /\ UNCHANGED <<now, subs, rows, resp, session_factory, concVars, tokVars>>

\* subscription.add_device(Device(...))
EntAddDevice ==
    /\ Len(ent.devices) < MaxEntDevices
    /\ \E d \in DeviceIds :
          LET r == add_device(ent, NewDevice(ent.id, d, now))
          IN EntCall("add_device", d, r.raised = "none", r.sub)

\* subscription.remove_device(device_id)
EntRemoveDevice ==
    \E d \in DeviceIds :
        LET r == remove_device(ent, d)
        IN EntCall("remove_device", d, r.removed, r.sub)

\* subscription.validate_for_activation(device_id)
EntValidateForActivation ==
    \E d \in DeviceIds :
        LET v == validate_for_activation(ent, d, now)
        IN EntCall("validate_for_activation", d, v.raised = "none", v.sub)

\* subscription.activate()
EntActivate == EntCall("activate", "", TRUE, sub_activate(ent))

\* subscription.suspend()
EntSuspend == EntCall("suspend", "", TRUE, sub_suspend(ent))

\* subscription.cancel()
EntCancel == EntCall("cancel", "", TRUE, sub_cancel(ent))

\* subscription.resume()
EntResume == EntCall("resume", "", TRUE, sub_resume(ent))

NextEnt ==
    \/ EntAddDevice
    \/ EntRemoveDevice
    \/ EntValidateForActivation
    \/ EntActivate
    \/ EntSuspend
    \/ EntCancel
    \/ EntResume

SpecEnt == InitEnt /\ [][NextEnt]_vars

\* ---------------------------------------------------- license key calls
\* Prefixes and key lengths a caller or the configuration may give.
Prefixes == {<<"F", "L">>, <<"X", "Y">>, <<"F", "L", "X">>, << >>, <<"F", "L", "-", "B">>}
KeyLengths == {license_key_length, 24, 16, 4}
\* Keys put to the format check directly.
SampleKeys ==
    {<<"F", "L", "-", "A", "B">>, << >>, <<"F", "L">>,
     <<"F", "L", "-", "A", "B", "Q", "7", "-", "A", "B", "Q", "7", "-", "A", "B", "Q", "7">>,
     <<"F", "L", "-", "A", "B", "Q", "7", "-", "A", "B", "Q", "7", "-", "A", "B", "Q", "7", "-", "A", "B", "Q", "7">>,
     <<"F", "L", "-", "A", "B", "Q", "7", "-", "A", "B", "Q", "7", "-", "A", "B", "Q", "7", "-", "A", "B", "Q">>}

InitKey ==
    /\ now = 0
    /\ subs = [k \in Keys |-> InitSub(k, "active", "basic", << >>, 0, NoTime, 7, 1)]
    /\ rows = {}
    /\ resp = BaseResp
    /\ ConcInit
    /\ TokInit
    /\ EntIdle

\* generate_license_key(prefix, length), then the format check of its key.
KeyGenerate ==
    /\ \E prefix \in Prefixes, length \in KeyLengths, seed \in 0..MaxSeed :
          LET g == generate_license_key(prefix, length, seed)
          IN eres' = [op |-> "generate_license_key", prefix |-> prefix, length |-> length,
                      raised |-> g.raised, key |-> g.key,
                      valid |-> IF g.raised = "none" THEN validate_license_key_format(g.key)
                                ELSE FALSE]
    /\ UNCHANGED <<now, subs, rows, resp, session_factory, concVars, tokVars, ent>>

\* validate_license_key_format(key)
KeyValidate ==
    /\ \E key \in SampleKeys :
          eres' = [op |-> "validate_license_key_format", key |-> key,
                   valid |-> validate_license_key_format(key)]
    /\ UNCHANGED <<now, subs, rows, resp, session_factory, concVars, tokVars, ent>>

NextKey ==
    \/ KeyGenerate
    \/ KeyValidate

SpecKey == InitKey /\ [][NextKey]_vars

\* ------------------------------------------------- the stated behaviour
\* is_usable_now() as the design states it.
UsableNow(row, t) ==
    /\ row.status = "active"
    /\ t >= row.starts_at
    /\ (row.expires_at = NoTime \/ t <= row.expires_at + row.grace_period_days)

\* now is past expires_at + grace_period_days.
PastGrace(row, t) == row.expires_at # NoTime /\ t > row.expires_at + row.grace_period_days

\* The stored device rows of the subscription with license key k.
RowsOf(dbr, k) == {r \in dbr : r.subscription_id = SubId(k)}
ActiveRowsOf(dbr, k) == {r \in RowsOf(dbr, k) : r.is_active}
BoundRow(dbr, k, d) == \E r \in RowsOf(dbr, k) : r.device_id = d
BoundActive(dbr, k, d) == \E r \in ActiveRowsOf(dbr, k) : r.device_id = d

\* The step answers a request: no request moves on to a later statement.
Answers == \A p \in Procs : pc'[p] = pc[p] \/ pc'[p] = "idle"

\* ----------------------------------------------------------------- claims

\* C1: when NumProcs activate calls for distinct devices of one license key
\* run concurrently, at most max_devices of them succeed, no interleaving
\* stores more than max_devices active devices, and when more calls ran than
\* there are slots a call failed with DeviceLimitExceeded carrying
\* current_devices = max_devices.
C1_ConcurrentActivationsWithinLimit ==
    \A k \in Keys :
        LET N == subs[k].max_devices
            succeeded == {p \in Procs : pc[p] = "done" /\ presp[p].status_code = 200}
        IN /\ Cardinality(succeeded) <= N
           /\ Cardinality(ActiveRowsOf(rows, k)) <= N
           /\ ((\A p \in Procs : pc[p] = "done") /\ NumProcs > N
               /\ ~PastGrace(subs[k], now) /\ subs[k].status = "active") =>
                 \E p \in Procs : /\ presp[p].error = "DeviceLimitExceeded"
                                  /\ presp[p].current_devices = N
                                  /\ presp[p].max_devices = N

\* C2: after any sequence of sequentially executed operations the number of
\* a subscription's devices whose active flag is true never exceeds its
\* max_devices.
C2_ActiveDevicesWithinLimit ==
    \A k \in Keys : Cardinality(ActiveRowsOf(rows, k)) <= subs[k].max_devices

\* C3: activate succeeds (a token is issued) only on a subscription that is
\* usable now, and a subscription past expiry plus grace is answered with
\* SubscriptionExpired.
C3_ActivateOnlyWhenUsable ==
    (resp.op = "activate" /\ resp.key \in Keys) =>
        /\ resp.has_token => UsableNow(subs[resp.key], now)
        /\ ~UsableNow(subs[resp.key], now) => ~BoundActive(rows, resp.key, resp.device_id)
        /\ PastGrace(subs[resp.key], now) => resp.error = "SubscriptionExpired"

\* The subscription an analytics answer describes: the status and the expiry
\* it reports, the start and the grace period no analytics, suspend or
\* resume request changes.
AnalyticsRow ==
    [status |-> resp.info.status, expires_at |-> resp.info.expires_at,
     starts_at |-> subs[resp.key].starts_at,
     grace_period_days |-> subs[resp.key].grace_period_days]

\* C4: is_active() is true exactly when the status is active, the start has
\* passed and the clock is not past expires_at + grace_period_days; it is
\* false for every other status and true at the instant
\* now = expires_at + grace_period_days.
C4_IsActiveIsUsableNow ==
    (resp.op = "analytics" /\ resp.error = "none") =>
        LET row == AnalyticsRow
        IN /\ resp.info.is_active = UsableNow(row, now)
           /\ row.status # "active" => ~resp.info.is_active
           /\ (row.status = "active" /\ now >= row.starts_at /\ row.expires_at # NoTime
               /\ now = row.expires_at + row.grace_period_days) => resp.info.is_active

\* C4 witness: is_active() answered true at the last instant of the grace period.
C4_Witness ==
    /\ resp.op = "analytics"
    /\ resp.error = "none"
    /\ resp.info.is_active
    /\ AnalyticsRow.expires_at # NoTime
    /\ AnalyticsRow.grace_period_days > 0
    /\ now = AnalyticsRow.expires_at + AnalyticsRow.grace_period_days

\* C5: validate on an existing license is valid exactly when the device is
\* bound and active and the subscription is usable; an absent or inactive
\* device gives device_not_activated; otherwise an unusable subscription
\* gives expired when past expiry plus grace and inactive in every other case.
C5_ValidateResult ==
    (resp.op = "validate" /\ resp.key \in Keys) =>
        LET row == subs[resp.key]
            bound == BoundActive(rows, resp.key, resp.device_id)
        IN /\ resp.valid = (bound /\ UsableNow(row, now))
           /\ ~bound => resp.reason = "device_not_activated"
           /\ (bound /\ ~UsableNow(row, now)) =>
                 resp.reason = IF PastGrace(row, now) THEN "expired" ELSE "inactive"

\* C6: validate never raises for an unknown license key, an expired
\* subscription or an unbound device: the answer is a negative result with
\* a reason code.
C6_ValidateNeverRaises ==
    (/\ resp.op = "validate"
     /\ \/ resp.key \notin Keys
        \/ PastGrace(subs[resp.key], now)
        \/ ~BoundRow(rows, resp.key, resp.device_id)) =>
        /\ resp.error = "none"
        /\ ~resp.valid
        /\ resp.reason \in {"invalid_license", "expired", "inactive", "device_not_activated"}

\* C7: a second activate with the same license key and device id, directly
\* after a successful one on a usable subscription, succeeds with action
\* already_active and leaves the device rows as they were.
C7_SecondActivateAlreadyActive ==
    [][(/\ Answers
        /\ resp.op = "activate" /\ resp.error = "none"
        /\ resp.key \in Keys /\ UsableNow(subs[resp.key], now)
        /\ resp'.op = "activate" /\ resp'.key = resp.key /\ resp'.device_id = resp.device_id)
       => (/\ resp'.error = "none"
           /\ resp'.action = "already_active"
           /\ rows' = rows)]_vars

\* C8: with max_devices = N active devices on a usable subscription,
\* activate for a new device id fails with DeviceLimitExceeded{N, N}; and
\* directly after a deactivate that returned true, activate for a new
\* device id succeeds.
C8_SlotsReclaimedByDeactivation ==
    [][(/\ Answers
        /\ resp'.op = "activate" /\ resp'.key \in Keys
        /\ UsableNow(subs[resp'.key], now)
        /\ ~BoundRow(rows, resp'.key, resp'.device_id))
       => (/\ (Cardinality(ActiveRowsOf(rows, resp'.key)) = subs[resp'.key].max_devices) =>
                 (/\ resp'.error = "DeviceLimitExceeded"
                  /\ resp'.current_devices = subs[resp'.key].max_devices
                  /\ resp'.max_devices = subs[resp'.key].max_devices)
           /\ (resp.op = "deactivate" /\ resp.removed /\ resp.key = resp'.key) =>
                 resp'.error = "none")]_vars

C10_TrustDomainsSeparate ==
    /\ (vres.kind = "subscription" /\ vres.result.valid) =>
          /\ get_unverified_header(tok.token).alg = "RS256"
          /\ get_unverified_claims(tok.token).iss = "flowlytix-licensing"
          /\ get_unverified_claims(tok.token).aud = "flowlytix-app"
          /\ tok.origin # "access"
    /\ (vres.kind = "access" /\ tok.origin = "subscription") => ~vres.result.valid

\* C10 witness: an unexpired access token was put to verify_subscription_token
\* and refused.
C10_Witness ==
    /\ vres.kind = "subscription"
    /\ tok.origin = "access"
    /\ now <= get_unverified_claims(tok.token).exp
    /\ ~vres.result.valid

\* C11: verify_subscription_token with its keys loaded never raises: an
\* issued token is valid with its payload until its expiry and token_expired
\* after it, and a token with a bad signature, issuer or audience is
\* answered invalid_token.
C11_VerifyNeverThrows ==
    (vres.kind = "subscription") =>
        /\ vres.result.raised = "none"
        /\ (tok.origin = "subscription" /\ now <= get_unverified_claims(tok.token).exp) =>
              (vres.result.valid /\ vres.result.payload = get_unverified_claims(tok.token))
        /\ (tok.origin = "subscription" /\ now > get_unverified_claims(tok.token).exp) =>
              (~vres.result.valid /\ vres.result.error = "token_expired")
        /\ (tok.origin \in {"forged", "access"}) =>
              (~vres.result.valid /\ vres.result.error = "invalid_token")

\* C12: every issued subscription token has exp = iat + 30 days whatever
\* the subscription's expires_at and grace period are, and issuing it leaves
\* the subscription's expires_at as it was.
C12_TokenExpiryFixedCeiling ==
    (tok.origin = "subscription") =>
        /\ get_unverified_claims(tok.token).exp = get_unverified_claims(tok.token).iat + TokenTtlDays
        /\ get_unverified_claims(tok.token).expires_at = tok.issued.expires_at
        /\ \A k \in Keys : subs[k].license_key = tok.issued.license_key =>
                              subs[k].expires_at = tok.issued.expires_at

\* C12 witness: a token was issued for a subscription whose expiry and grace
\* period had already passed.
C12_Witness ==
    /\ tok.origin = "subscription"
    /\ tok.issued.expires_at # NoTime
    /\ tok.issued.expires_at + tok.issued.grace_period_days < get_unverified_claims(tok.token).iat
    /\ get_unverified_claims(tok.token).exp = get_unverified_claims(tok.token).iat + TokenTtlDays

\* The stated key shape: the prefix, then four segments of at least four
\* upper-case alphanumeric characters.
KeyShape(key, prefix) ==
    LET parts == StrSplit(key, "-")
    IN /\ Len(parts) = 5
       /\ parts[1] = prefix
       /\ \A i \in 2..5 : /\ Len(parts[i]) >= 4
                          /\ \A j \in 1..Len(parts[i]) : parts[i][j] \in UpperAlnumChars

\* C13: for every prefix and configured length the generated key has the
\* stated shape and passes validate_license_key_format.
C13_GeneratedKeyValidates ==
    (eres.op = "generate_license_key") =>
        /\ eres.raised = "none"
        /\ KeyShape(eres.key, eres.prefix)
        /\ eres.valid

\* C13, second part: a key with fewer than 5 dash-separated segments, such
\* as FL-AB, fails validate_license_key_format.
C13_FewSegmentsRejected ==
    (eres.op = "validate_license_key_format" /\ Len(eres.key) > 0
     /\ Len(StrSplit(eres.key, "-")) < 5) => ~eres.valid

\* C13 witness: FL-AB was put to the format check and refused.
C13_Witness ==
    /\ eres.op = "validate_license_key_format"
    /\ eres.key = <<"F", "L", "-", "A", "B">>
    /\ ~eres.valid

\* C14: is_in_grace_period() is true exactly when expires_at is set and
\* expires_at < now <= expires_at + grace_period_days; one day after the
\* expiry of an active subscription, a positive grace period gives
\* is_active() and is_in_grace_period() both true and a grace period of 0
\* gives both false.
C14_GracePeriodWindow ==
    (resp.op = "analytics" /\ resp.error = "none") =>
        LET row == AnalyticsRow
        IN /\ resp.info.is_in_grace_period =
                 (/\ row.expires_at # NoTime
                  /\ row.expires_at < now
                  /\ now <= row.expires_at + row.grace_period_days)
           /\ (row.status = "active" /\ now >= row.starts_at
               /\ row.expires_at # NoTime /\ row.expires_at = now - 1) =>
                 /\ row.grace_period_days > 0 =>
                       (resp.info.is_active /\ resp.info.is_in_grace_period)
                 /\ row.grace_period_days = 0 =>
                       (~resp.info.is_active /\ ~resp.info.is_in_grace_period)

\* C14 witness: one day after the expiry of an active subscription with a
\* grace period, both predicates answered true.
C14_Witness ==
    /\ resp.op = "analytics"
    /\ resp.error = "none"
    /\ AnalyticsRow.status = "active"
    /\ AnalyticsRow.expires_at # NoTime
    /\ AnalyticsRow.expires_at = now - 1
    /\ AnalyticsRow.grace_period_days > 0
    /\ resp.info.is_active
    /\ resp.info.is_in_grace_period

\* C15: resume() directly after cancel() or suspend() of an active
\* subscription leaves the status active and exactly the devices active
\* that were active before the cancellation or suspension; a device
\* deactivated earlier stays inactive.
C15_ResumeRestoresActiveDevices ==
    (eres.op = "resume" /\ eres.prev \in {"cancel", "suspend"} /\ eres.from = "active") =>
        /\ ent.status = "active"
        /\ ActiveIdx(ent) = eres.snap

\* C16: a successful cancel leaves the subscription cancelled and none of
\* its devices active, with every device still stored.
C16_CancelDeactivatesEveryDevice ==
    [][(Answers /\ resp'.op = "cancel" /\ resp'.error = "none") =>
          /\ subs'[resp'.key].status = "cancelled"
          /\ ActiveRowsOf(rows', resp'.key) = {}
          /\ {r.device_id : r \in RowsOf(rows', resp'.key)} =
             {r.device_id : r \in RowsOf(rows, resp'.key)}]_vars

\* C17: deactivate on an existing license answers true and leaves the
\* device inactive when a device with the id is bound, and answers false
\* without an error and without any change when none is.
C17_DeactivateFoundOrNoop ==
    [][(Answers /\ resp'.op = "deactivate" /\ resp'.key \in Keys) =>
          IF BoundRow(rows, resp'.key, resp'.device_id)
          THEN /\ resp'.error = "none"
               /\ resp'.removed
               /\ ~BoundActive(rows', resp'.key, resp'.device_id)
          ELSE /\ resp'.error = "none"
               /\ ~resp'.removed
               /\ rows' = rows
               /\ subs' = subs]_vars

\* C18: a subscription never stores two devices with one client device id,
\* and of concurrent activate calls for the same new device id none ends in
\* a storage error.
C18_OneDevicePerClientId ==
    /\ \A k \in Keys, d \in DeviceIds :
          Cardinality({r \in RowsOf(rows, k) : r.device_id = d}) <= 1
    /\ \A p \in Procs : pc[p] = "done" =>
          (presp[p].error # "DatabaseException" /\ presp[p].status_code # 500)

\* ------------------------------------------------- feature resolution calls
\* Override maps the calls are made with: none, overrides of tier defaults
\* (raising and lowering them) and capabilities no tier defines.
Overrides ==
    << << >>,
       [max_customers |-> 250],
       [analytics |-> TRUE, api_access |-> TRUE],
       [analytics |-> FALSE, max_products |-> 0],
       [custom_reports |-> TRUE],
       [export_limit |-> 20, priority_support |-> TRUE] >>

\* Capability names asked for: the tier-defined ones, override-only ones
\* and one that nothing defines.
QueriedNames == FeatureNames \cup {"custom_reports", "export_limit", "unknown_feature"}

InitFeat ==
    /\ now = 0
    /\ subs = [k \in Keys |-> InitSub(k, "active", "basic", << >>, 0, NoTime, 7, 1)]
    /\ rows = {}
    /\ resp = BaseResp
    /\ ConcInit
    /\ TokInit
    /\ EntIdle

\* FeatureSet(tier, overrides).has_feature(name)
FeatHasFeature ==
    /\ \E tier \in Tiers, c \in DOMAIN Overrides, name \in QueriedNames :
          eres' = [op |-> "has_feature", tier |-> tier, c |-> c, name |-> name,
                   value |-> has_feature(FeatureSet(tier, Overrides[c]), name)]
    /\ UNCHANGED <<now, subs, rows, resp, session_factory, concVars, tokVars, ent>>

\* FeatureSet(tier, overrides).get_limit(name)
FeatGetLimit ==
    /\ \E tier \in Tiers, c \in DOMAIN Overrides, name \in QueriedNames :
          eres' = [op |-> "get_limit", tier |-> tier, c |-> c, name |-> name,
                   value |-> get_limit(FeatureSet(tier, Overrides[c]), name)]
    /\ UNCHANGED <<now, subs, rows, resp, session_factory, concVars, tokVars, ent>>

NextFeat ==
    \/ FeatHasFeature
    \/ FeatGetLimit

SpecFeat == InitFeat /\ [][NextFeat]_vars

\* An expiry date on or after this day is not extended further.
MaxExpiry == 3

\* The day of the administrative calls, after the grace period of their
\* subscription, and the expiry date they do not extend further.
AdminLateDay == 3
AdminMaxExpiry == 2

\* ------------------------------------- tier and expiry calls on the aggregate
\* subscription.extend_expiry(days)
EntExtendExpiry ==
    /\ ent.expires_at < MaxExpiry
    /\ \E days \in {1, 2} :
          /\ ent' = extend_expiry(ent, days, now)
          /\ eres' = [op |-> "extend_expiry", device_id |-> "", ok |-> TRUE, before |-> ent,
                      prev |-> eres.op, from |-> eres.from, snap |-> eres.snap,
                      days |-> days, at |-> now]
    /\ UNCHANGED <<now, subs, rows, resp, session_factory, concVars, tokVars>>

\* subscription.update_tier(new_tier, custom_features)
EntUpdateTier ==
    /\ \E new_tier \in Tiers, c \in DOMAIN CustomFeatures :
          /\ ent' = update_tier(ent, new_tier, CustomFeatures[c])
          /\ eres' = [op |-> "update_tier", device_id |-> "", ok |-> TRUE, before |-> ent,
                      prev |-> eres.op, from |-> eres.from, snap |-> eres.snap,
                      tier |-> new_tier, c |-> c]
    /\ UNCHANGED <<now, subs, rows, resp, session_factory, concVars, tokVars>>

\* Device lists of the aggregates the calls are made on: none, one active
\* device, one active and one deactivated device.
EntDeviceLists(s) ==
    LET one == add_device(s, NewDevice(s.id, "d1", 0)).sub
        two == remove_device(add_device(one, NewDevice(s.id, "d2", 0)).sub, "d2").sub
    IN {s.devices, one.devices, two.devices}

\* An aggregate of any status, with or without an expiry date, on any day.
InitEntAdmin ==
    /\ now \in 0..MaxNow
    /\ subs = [k \in Keys |-> InitSub(k, "active", "basic", << >>, 0, NoTime, 7, 1)]
    /\ rows = {}
    /\ resp = BaseResp
    /\ ConcInit
    /\ TokInit
    /\ \E status \in Statuses, expires_at \in {NoTime, 1} :
          LET s == SubModelToEntity(InitSub("K1", status, "basic", << >>, 0, expires_at, 7,
                                            MaxDevices))
          IN \E devices \in EntDeviceLists(s) : ent = [s EXCEPT !.devices = devices]
    /\ eres = [op |-> "none", device_id |-> "", ok |-> FALSE, before |-> NoEnt,
               prev |-> "none", from |-> "none", snap |-> {}]

NextEntAdmin ==
    \/ EntExtendExpiry
    \/ EntUpdateTier

SpecEntAdmin == InitEntAdmin /\ [][NextEntAdmin]_vars

\* ------------------------------------------------ administrative calls
\* An active subscription that expired on day 1 with a day of grace, on a
\* day after its grace period.
InitAdmin ==
    /\ now = AdminLateDay
    /\ subs = [k \in Keys |-> InitSub(k, "active", "basic", << >>, 0, 1, 1, 1)]
    /\ rows = {}
    /\ resp = BaseResp
    /\ ConcInit
    /\ TokInit
    /\ EntIdle

\* SubscriptionService.extend_subscription
Extend ==
    \E p \in Procs, k \in Keys, days \in {1} :
        /\ subs[k].expires_at < AdminMaxExpiry
        /\ LifecycleBegin(p, "service", "extend", k, "SubscriptionNotFound", days)

\* SubscriptionService.update_subscription_tier
UpdateTier ==
    \E p \in Procs, k \in Keys, new_tier \in {"enterprise"}, c \in {1} :
        LifecycleBegin(p, "service", "tier", k, "SubscriptionNotFound",
                       [new_tier |-> new_tier, custom_features |-> CustomFeatures[c]])

\* PUT /subscription/subscriptions/{id}: the route applies the fields of
\* the body itself, no method of the service does.
AdminRoutes == {"update"}

AdminHttpRequest == Http(AdminRoutes, Keys \cup {UnknownKey})

NextAdmin ==
    \/ Activate
    \/ Validate
    \/ Deactivate
    \/ Suspend
    \/ Cancel
    \/ Resume
    \/ Extend
    \/ UpdateTier
    \/ InsertDevice
    \/ UpdateRow
    \/ SignToken
    \/ CommitRequest
    \/ AdminHttpRequest
    \/ InitDatabase

SpecAdmin == InitAdmin /\ [][NextAdmin]_vars

\* ------------------------------------------------------ two subscriptions
\* License keys of two subscriptions: K1, with one device slot, is stored
\* from the start, K2 is the key of the subscription a creation call adds.
TwoKeys == {"K1", "K2"}

\* The repositories the service of a call is built over.
Repositories == {Shipped, Carrying}

InitTwo ==
    /\ now = 0
    /\ subs = [k \in Keys |-> InitSub(k, "active", "basic", << >>, 0, NoTime, 1, 1)]
    /\ rows = {}
    /\ resp = BaseResp
    /\ ConcInit
    /\ TokInit
    /\ EntIdle

\* activate_license with either license key
TwoActivate ==
    \E p \in Procs, repo \in Repositories : ActivateBegin(p, "service", repo, TwoKeys)

\* validate_license with either license key
TwoValidate ==
    \E p \in Procs, repo \in Repositories :
        ValidateBegin(p, "service", repo, TwoKeys, {TRUE})

\* deactivate_device with either license key
TwoDeactivate ==
    \E p \in Procs, repo \in Repositories : DeactivateBegin(p, "service", repo, TwoKeys)

\* SubscriptionService.create_subscription
CreateSubscription == \E p \in Procs : CreateBegin(p, "service", TwoKeys)

NextTwo ==
    \/ CreateSubscription
    \/ InsertSubscription
    \/ TwoActivate
    \/ TwoValidate
    \/ TwoDeactivate
    \/ InsertDevice
    \/ TouchDevice
    \/ UpdateRow
    \/ SignToken
    \/ CommitRequest

SpecTwo == InitTwo /\ [][NextTwo]_vars

\* ------------------------------------- calls over aggregates with devices
\* An active subscription with one device slot on the day it expires.  The
\* devices table holds no row for the first client id, a row with the
\* active flag set or a row with the flag cleared, the device seen last the
\* day before.
DeviceRowStates == {"absent", "active", "inactive"}

InitLoaded ==
    /\ now = 1
    /\ subs = [k \in Keys |-> InitSub(k, "active", "basic", << >>, 0, 1, 0, 1)]
    /\ \E st \in DeviceRowStates :
          rows = {[NewDevice(SubId(k), DevSeq[1], 0) EXCEPT !.is_active = (st = "active")] :
                    k \in {e \in Keys : st # "absent"}}
    /\ resp = BaseResp
    /\ ConcInit
    /\ TokInit
    /\ EntIdle

\* activate_license over either repository
LoadedActivate ==
    \E p \in Procs, repo \in Repositories : ActivateBegin(p, "service", repo, Keys)

\* validate_license over a repository whose aggregates carry their devices
LoadedValidate ==
    \E p \in Procs : ValidateBegin(p, "service", Carrying, Keys, BOOLEAN)

\* deactivate_device over a repository whose aggregates carry their devices
LoadedDeactivate == \E p \in Procs : DeactivateBegin(p, "service", Carrying, Keys)

NextLoaded ==
    \/ LoadedActivate
    \/ ActivateFailing
    \/ LoadedValidate
    \/ LoadedDeactivate
    \/ InsertDevice
    \/ TouchDevice
    \/ UpdateRow
    \/ SignToken
    \/ CommitRequest
    \/ Tick

SpecLoaded == InitLoaded /\ [][NextLoaded]_vars

\* C19: an activate that fails at any step (device limit, expiry, a
\* refused insert or update, token signing) leaves the stored subscription
\* row and device rows exactly as they were before the call.
C19_FailedActivateChangesNothing ==
    [][(Answers /\ resp'.op = "activate" /\ resp'.error # "none") =>
          (subs' = subs /\ rows' = rows)]_vars

\* C19 witness: an activate created its device row, failed at token signing
\* and no row for the device is stored.
C19_Witness ==
    /\ resp.op = "activate"
    /\ resp.error = "TokenException"
    /\ ~BoundRow(rows, resp.key, resp.device_id)

\* An activate for a new device found every slot taken.
C19_WitnessDeviceLimit ==
    /\ resp.op = "activate"
    /\ resp.error = "DeviceLimitExceeded"
    /\ resp.current_devices = subs[resp.key].max_devices
    /\ ~BoundRow(rows, resp.key, resp.device_id)

\* C20: for every tier and override map, a capability named in the overrides
\* resolves to the override's value, every other capability to the tier
\* default, and a name in neither to false (has_feature) and 0 (get_limit).
C20_OverridesTakePrecedence ==
    eres.op \in {"has_feature", "get_limit"} =>
        LET over == Overrides[eres.c]
            dflt == TIER_FEATURES(eres.tier)
            n == eres.name
        IN /\ n \in DOMAIN over => eres.value = over[n]
           /\ (n \notin DOMAIN over /\ n \in DOMAIN dflt) => eres.value = dflt[n]
           /\ (n \notin DOMAIN over /\ n \notin DOMAIN dflt) =>
                 eres.value = (IF eres.op = "has_feature" THEN FALSE ELSE 0)

\* C20 witness: a capability whose override differs from the tier default
\* was resolved.
C20_Witness ==
    /\ eres.op = "get_limit"
    /\ eres.name \in DOMAIN Overrides[eres.c]
    /\ eres.name \in DOMAIN TIER_FEATURES(eres.tier)
    /\ Overrides[eres.c][eres.name] # TIER_FEATURES(eres.tier)[eres.name]
    /\ eres.value = Overrides[eres.c][eres.name]


\* C21: suspend() from any status sets the status to suspended, the
\* subscription is then not usable, and the device list with every device's
\* active flag is as it was.
C21_SuspendKeepsDevices ==
    eres.op = "suspend" =>
        /\ ent.status = "suspended"
        /\ ~is_active(ent, now)
        /\ ent.devices = eres.before.devices

\* C21 witness: a subscription holding an active device was suspended.
C21_Witness ==
    /\ eres.op = "suspend"
    /\ ActiveIdx(eres.before) # {}
    /\ eres.before.status # "suspended"


C22_WitnessResumed ==
    /\ resp.op = "resume"
    /\ resp.error = "none"
    /\ PastGrace(subs[resp.key], now)
    /\ subs[resp.key].status = "active"


\* C23: activate() makes the status active from pending, suspended or
\* cancelled and resume() from suspended or cancelled; from any other prior
\* status they leave the status as it was, and activate() changes no device.
C23_TransitionGraph ==
    /\ eres.op = "activate" =>
          /\ ent.devices = eres.before.devices
          /\ ent.status = IF eres.before.status \in {"pending", "suspended", "cancelled"}
                          THEN "active" ELSE eres.before.status
    /\ eres.op = "resume" =>
          ent.status = IF eres.before.status \in {"suspended", "cancelled"}
                       THEN "active" ELSE eres.before.status


\* Every field of the aggregate but tier, features and expires_at.
C24Frame(s) ==
    <<s.id, s.customer_id, s.license_key, s.status, s.max_devices, s.starts_at,
      s.grace_period_days, s.devices>>

\* C24: update_tier and extend_expiry leave the status, the device list and
\* every device flag unchanged; update_tier changes only the tier and the
\* resolved feature map, extend_expiry only expires_at, to expires_at + days
\* or to now + days when it was unset.
C24_TierAndExpiryFrame ==
    /\ eres.op = "update_tier" =>
          /\ C24Frame(ent) = C24Frame(eres.before)
          /\ ent.expires_at = eres.before.expires_at
          /\ ent.tier = eres.tier
          /\ \A n \in DOMAIN ent.features :
                ent.features[n] = IF n \in DOMAIN CustomFeatures[eres.c]
                                  THEN CustomFeatures[eres.c][n]
                                  ELSE TIER_FEATURES(eres.tier)[n]
          /\ DOMAIN ent.features =
                (DOMAIN TIER_FEATURES(eres.tier)) \cup (DOMAIN CustomFeatures[eres.c])
    /\ eres.op = "extend_expiry" =>
          /\ C24Frame(ent) = C24Frame(eres.before)
          /\ ent.tier = eres.before.tier
          /\ ent.features = eres.before.features
          /\ ent.expires_at = IF eres.before.expires_at # NoTime
                              THEN eres.before.expires_at + eres.days
                              ELSE eres.at + eres.days

\* C24 witness: a subscription with an active device and an expiry date was
\* extended on a later day.
C24_Witness ==
    /\ eres.op = "extend_expiry"
    /\ eres.before.expires_at # NoTime
    /\ eres.at > 0
    /\ eres.before.expires_at # eres.at
    /\ ActiveIdx(eres.before) # {}


C25_WitnessOtherOnly ==
    /\ resp.op = "validate"
    /\ resp.key = "K2"
    /\ resp.reason = "device_not_activated"
    /\ BoundActive(rows, "K1", resp.device_id)
    /\ ~BoundRow(rows, "K2", resp.device_id)


\* The device rows dbr after only the last-seen timestamp of device d of
\* subscription k was set to t.
C26Touched(dbr, k, d, t) ==
    {IF r.subscription_id = SubId(k) /\ r.device_id = d
     THEN [r EXCEPT !.last_seen_at = t] ELSE r : r \in dbr}

C26_WitnessNotTouched ==
    /\ resp.op = "validate"
    /\ resp.valid
    /\ ~resp.update_last_seen
    /\ \E r \in RowsOf(rows, resp.key) : r.device_id = resp.device_id /\ r.last_seen_at < now

\* A validate with update_last_seen for a device bound on an earlier day was
\* answered valid=false.
C26_WitnessInvalid ==
    /\ resp.op = "validate"
    /\ ~resp.valid
    /\ resp.update_last_seen
    /\ resp.key \in Keys
    /\ \E r \in RowsOf(rows, resp.key) : r.device_id = resp.device_id /\ r.last_seen_at < now


\* C27: in every reachable state a subscription whose stored status is
\* cancelled has no device row with the active flag true.
C27_CancelledHasNoActiveDevice ==
    \A k \in Keys : subs[k].status = "cancelled" => ActiveRowsOf(rows, k) = {}


\* The stored device rows of aggregate agg carry the flags of its devices.
C28Persisted(agg, dbr) ==
    /\ \A i \in 1..Len(agg.devices) :
          \E r \in dbr : SameDevice(r, agg.devices[i]) /\ r.is_active = agg.devices[i].is_active
    /\ \A r \in get_by_subscription_id(dbr, agg.id) :
          \E i \in 1..Len(agg.devices) :
             agg.devices[i].device_id = r.device_id /\ agg.devices[i].is_active = r.is_active

\* The aggregate as the request answered in the next state left it in memory.
C28Aggregate ==
    CASE resp'.op = "deactivate" ->
           remove_device(get_by_license_key(subs, resp'.key).sub, resp'.device_id).sub
      [] resp'.op = "cancel" -> sub_cancel(get_by_id(subs, SubId(resp'.key)).sub)
      [] resp'.op = "resume" -> sub_resume(get_by_id(subs, SubId(resp'.key)).sub)

\* C28: when deactivate_device (having removed a device), cancel_subscription
\* or resume_subscription completes successfully, the stored active flag of
\* each device of the subscription equals the flag in the aggregate the
\* operation mutated; a reactivating activate leaves the device stored active.
C28_FlagChangesPersisted ==
    [][/\ (/\ Answers
           /\ resp'.op \in {"deactivate", "cancel", "resume"}
           /\ resp'.error = "none"
           /\ resp'.op = "deactivate" => resp'.removed)
          => C28Persisted(C28Aggregate, rows')
       /\ (Answers /\ resp'.op = "activate" /\ resp'.action = "reactivated")
          => BoundActive(rows', resp'.key, resp'.device_id)]_vars


\* Aggregate s lists every device row stored for it, with the stored flag.
C29Carries(s, dbr) ==
    \A r \in get_by_subscription_id(dbr, s.id) :
        \E i \in 1..Len(s.devices) :
           s.devices[i].device_id = r.device_id /\ s.devices[i].is_active = r.is_active

\* C29: the subscription returned by get_by_license_key or get_by_id carries
\* every device row stored for it, each with its stored active flag.
C29_LoadedAggregateCarriesDevices ==
    \A k \in Keys :
        /\ C29Carries(get_by_license_key(subs, k).sub, rows)
        /\ C29Carries(get_by_id(subs, SubId(k)).sub, rows)


C30_WitnessReactivated ==
    /\ resp.op = "activate"
    /\ resp.has_token
    /\ resp.action = "reactivated"
    /\ BoundActive(rows, resp.key, resp.device_id)

\* An activate returned a token for a device it bound.
C30_WitnessCanActivate ==
    /\ resp.op = "activate"
    /\ resp.has_token
    /\ resp.action = "can_activate"
    /\ BoundActive(rows, resp.key, resp.device_id)

====
